---------------------------- MODULE Spec2Model ----------------------------
(***************************************************************************)
(* A model of ContentAgent (src/app/ig_agent/agents/content_agent.py):     *)
(* the generate() retry loop, the in-place repair of the generated         *)
(* document, duplicate detection against the content history, and the      *)
(* history file.                                                           *)
(*                                                                         *)
(* Strings are sequences of characters.  A JSON scalar is a tagged value:  *)
(* a string or null.  A JSON object (the post, its cover, a page) is a     *)
(* function whose DOMAIN is the set of keys that are present, so that      *)
(* `"k" in d' is  "k" \in DOMAIN d  and  d.get("k", dflt)  is Get.         *)
(***************************************************************************)
EXTENDS Naturals, Sequences, FiniteSets, TLC

(***************************************************************************)
(* Program constants.                                                      *)
(***************************************************************************)
GreyBoxLimit == 20
HeadingLimit == 20
SalvageHeadingLimit == 25
TitleLimit == 35
MainPointLimit == 350
CaptionLimit == 800
CaptionMin == 100
MinPages == 3
MaxPages == 8
HistoryCap == 100
AnnexTopics == 30
DefaultMaxAttempts == 3

(***************************************************************************)
(* Bounds of the model.                                                    *)
(***************************************************************************)
MaxCalls == 1
CapCalls == 101
MaxInputPages == 4

(***************************************************************************)
(* Strings and JSON values.                                                *)
(***************************************************************************)
Str(n, c) == [i \in 1..n |-> c]

JS(s) == [t |-> "str", v |-> s]
JNull == [t |-> "null", v |-> <<>>]
IsStr(x) == x.t = "str"

\* s[:n]
Prefix(s, n) == IF Len(s) > n THEN SubSeq(s, 1, n) ELSE s

\* s[-n:]
Suffix(s, n) == IF Len(s) > n THEN SubSeq(s, Len(s) - n + 1, Len(s)) ELSE s

\* d.get(k, dflt)
Get(d, k, dflt) == IF k \in DOMAIN d THEN d[k] ELSE dflt

EmptyObj == [k \in {} |-> JNull]

\* str(n) for a natural number n
RECURSIVE Decimal(_)
Decimal(n) ==
    LET digit == <<"0", "1", "2", "3", "4", "5", "6", "7", "8", "9">>[(n % 10) + 1]
    IN  IF n < 10 THEN <<digit>> ELSE Append(Decimal(n \div 10), digit)

KeyPointPrefix == <<"K", "e", "y", " ", "P", "o", "i", "n", "t", " ">>

KeyPointText ==
    <<"T", "h", "i", "s", " ", "t", "o", "p", "i", "c", " ", "d", "e", "s", "e",
      "r", "v", "e", "s", " ", "m", "o", "r", "e", " ", "e", "x", "p", "l", "o",
      "r", "a", "t", "i", "o", "n", " ", "a", "n", "d", " ", "d", "i", "s", "c",
      "u", "s", "s", "i", "o", "n", " ", "i", "n", " ", "o", "u", "r", " ", "c",
      "o", "m", "m", "u", "n", "i", "t", "y", ".">>

AdditionalPointPrefix ==
    <<"A", "d", "d", "i", "t", "i", "o", "n", "a", "l", " ", "P", "o", "i", "n",
      "t", " ">>

AdditionalPointText ==
    <<"T", "h", "i", "s", " ", "a", "s", "p", "e", "c", "t", " ", "r", "e", "q",
      "u", "i", "r", "e", "s", " ", "f", "u", "r", "t", "h", "e", "r", " ", "c",
      "o", "n", "s", "i", "d", "e", "r", "a", "t", "i", "o", "n", " ", "a", "n",
      "d", " ", "e", "x", "p", "l", "o", "r", "a", "t", "i", "o", "n", ".">>

\* The page appended by the padding loop of the normal path.
KeyPointPage(n) ==
    [title |-> JS(KeyPointPrefix \o Decimal(n)), main_point |-> JS(KeyPointText)]

\* The page appended by the padding loop of the last-attempt handler.
AdditionalPointPage(n) ==
    [title |-> JS(AdditionalPointPrefix \o Decimal(n)),
     main_point |-> JS(AdditionalPointText)]

(***************************************************************************)
(* The repair steps.  Each step takes the document and yields              *)
(* [exc, doc]: exc is TRUE when the step raises (len() or slicing of a     *)
(* null), and doc is the document as the step left it (the repair mutates  *)
(* the mapping in place, so what was done before the raise stays done).    *)
(*                                                                         *)
(* An intermediate result is named by binding it in a one-element set,     *)
(*     CHOOSE y \in {F(x) : x \in {e}} : TRUE      (that is, F(e)),         *)
(* which has TLC compute e once however often F uses it.                   *)
(***************************************************************************)
Ok(d) == [exc |-> FALSE, doc |-> d]
Raise(d) == [exc |-> TRUE, doc |-> d]

\* if len(x) > n: x = x[:n]      on the value at obj[k], when k is present
TruncateField(obj, k, n) ==
    IF k \notin DOMAIN obj THEN Ok(obj)
    ELSE IF ~IsStr(obj[k]) THEN Raise(obj)
    ELSE Ok([obj EXCEPT ![k] = JS(Prefix(obj[k].v, n))])

\* One cover field of the document, under the "cover" key.
TruncateCoverField(d, k, n) ==
    IF "cover" \notin DOMAIN d THEN Ok(d)
    ELSE CHOOSE y \in {[exc |-> r.exc, doc |-> [d EXCEPT !.cover = r.doc]] :
                          r \in {TruncateField(d.cover, k, n)}} : TRUE

\* One iteration of `for page in content_json["content_pages"]'.
TruncatePage(p) ==
    CHOOSE y \in {IF r1.exc THEN r1
                  ELSE TruncateField(r1.doc, "main_point", MainPointLimit) :
                      r1 \in {TruncateField(p, "title", TitleLimit)}} : TRUE

\* The whole page loop: it stops at the first page that raises.
\* res[i] is what the iteration makes of page i; the loop stops at the
\* first page that raises, so the pages after it stay as they were.
PagesAfterLoop(pages, res) ==
    CHOOSE y \in
        {[exc |-> bad # {},
          pages |-> [i \in 1..Len(pages) |->
                       IF \A j \in bad : i <= j THEN res[i].doc ELSE pages[i]]] :
            bad \in {{i \in 1..Len(pages) : res[i].exc}}} : TRUE

TruncatePages(d) ==
    IF "content_pages" \notin DOMAIN d THEN Ok(d)
    ELSE CHOOSE y \in
            {[exc |-> a.exc, doc |-> [d EXCEPT !.content_pages = a.pages]] :
                a \in {PagesAfterLoop(d.content_pages, res) :
                          res \in {[i \in 1..Len(d.content_pages) |->
                                      TruncatePage(d.content_pages[i])]}}} : TRUE

TruncateCaption(d) == TruncateField(d, "caption", CaptionLimit)

\* while len(pages) < 3: pages.append(placeholder(len(pages) + 1))
RECURSIVE PadLoop(_, _)
PadLoop(pages, key) ==
    IF Len(pages) < MinPages
    THEN PadLoop(Append(pages,
                        IF key THEN KeyPointPage(Len(pages) + 1)
                               ELSE AdditionalPointPage(Len(pages) + 1)),
                 key)
    ELSE pages

PadPagesIfOnce(d) ==
    IF "content_pages" \notin DOMAIN d \/ Len(d.content_pages) >= MinPages THEN d
    ELSE [d EXCEPT !.content_pages =
              Append(d.content_pages, KeyPointPage(Len(d.content_pages) + 1))]

PadPagesOffByOne(d) ==
    IF "content_pages" \notin DOMAIN d \/ Len(d.content_pages) >= MinPages THEN d
    ELSE [d EXCEPT !.content_pages =
              d.content_pages \o
              [i \in 1..(MinPages - Len(d.content_pages)) |->
                  KeyPointPage(Len(d.content_pages) + i + 1)]]

\* A padding that would also cut the list down to the schema's maximum.
PadPagesAndTrim(d) ==
    IF "content_pages" \notin DOMAIN d THEN d
    ELSE [d EXCEPT !.content_pages = Prefix(PadLoop(d.content_pages, TRUE), MaxPages)]

\* Ensure minimum content pages requirement (normal path).
PadPages(d) ==
    IF "content_pages" \notin DOMAIN d THEN d
    ELSE [d EXCEPT !.content_pages = PadLoop(d.content_pages, TRUE)]

\* Ensure minimum content pages (last-attempt handler).
SalvagePadPages(d) ==
    IF "content_pages" \notin DOMAIN d THEN d
    ELSE [d EXCEPT !.content_pages = PadLoop(d.content_pages, FALSE)]

GreyStep(d) == TruncateCoverField(d, "grey_box_text", GreyBoxLimit)
Heading1StepWide(d) == TruncateCoverField(d, "heading_line1", SalvageHeadingLimit)
Heading1Step(d) == TruncateCoverField(d, "heading_line1", HeadingLimit)
Heading2Step(d) == TruncateCoverField(d, "heading_line2", HeadingLimit)
SalvageHeading1Step(d) == TruncateCoverField(d, "heading_line1", SalvageHeadingLimit)
SalvageHeading2Step(d) == TruncateCoverField(d, "heading_line2", SalvageHeadingLimit)

\* "Enforce max_length constraints even if model returns longer strings"
\* and "Ensure minimum content pages requirement": the repair of the try
\* block, in the order of the code; the first raise ends it.
Repair(d) ==
    CHOOSE y \in
      {IF r5.exc THEN r5 ELSE Ok(PadPages(r5.doc)) :
        r5 \in {IF r4.exc THEN r4 ELSE TruncateCaption(r4.doc) :
          r4 \in {IF r3.exc THEN r3 ELSE TruncatePages(r3.doc) :
            r3 \in {IF r2.exc THEN r2 ELSE Heading2Step(r2.doc) :
              r2 \in {IF r1.exc THEN r1 ELSE Heading1Step(r1.doc) :
                r1 \in {GreyStep(d)}}}}}} : TRUE

\* The repair of the last-attempt exception handler.
SalvageRepair(d) ==
    CHOOSE y \in
      {IF r5.exc THEN r5 ELSE Ok(SalvagePadPages(r5.doc)) :
        r5 \in {IF r4.exc THEN r4 ELSE TruncateCaption(r4.doc) :
          r4 \in {IF r3.exc THEN r3 ELSE TruncatePages(r3.doc) :
            r3 \in {IF r2.exc THEN r2 ELSE SalvageHeading2Step(r2.doc) :
              r2 \in {IF r1.exc THEN r1 ELSE SalvageHeading1Step(r1.doc) :
                r1 \in {GreyStep(d)}}}}}} : TRUE

(***************************************************************************)
(* Signature, history entries, duplicate check.                            *)
(***************************************************************************)
CoverOf(d) == Get(d, "cover", EmptyObj)
PagesOf(d) == Get(d, "content_pages", <<>>)
Field(obj, k) == Get(obj, k, JS(<<>>))

\* content_fields: heading_line1, heading_line2, hashtag, then every title
ContentFields(d) ==
    <<Field(CoverOf(d), "heading_line1"), Field(CoverOf(d), "heading_line2"),
      Field(CoverOf(d), "hashtag")>>
    \o [i \in 1..Len(PagesOf(d)) |-> Field(PagesOf(d)[i], "title")]

RECURSIVE JoinSeparatedFrom(_, _)
JoinSeparatedFrom(fields, i) ==
    IF i > Len(fields) THEN <<>>
    ELSE fields[i].v \o <<"|">> \o JoinSeparatedFrom(fields, i + 1)

JoinSeparated(fields) == CHOOSE y \in {JoinSeparatedFrom(f, 1) : f \in {fields}} : TRUE

\* ''.join(fields), for fields that are all strings
RECURSIVE JoinFrom(_, _)
JoinFrom(fields, i) ==
    IF i > Len(fields) THEN <<>> ELSE fields[i].v \o JoinFrom(fields, i + 1)

Join(fields) == CHOOSE y \in {JoinFrom(f, 1) : f \in {fields}} : TRUE

\* hashlib.md5(s).hexdigest(): the digest is taken to identify its input
\* (no two inputs of the model collide).
Md5(s) == [md5 |-> s]

\* ''.join raises TypeError when a field is not a string
SignatureRaises(d) == \E x \in {ContentFields(d)} : \E i \in 1..Len(x) : ~IsStr(x[i])

Signature(d) == Md5(Join(ContentFields(d)))

HasSignature(hist, sig) == \E i \in 1..Len(hist) : hist[i].signature = sig

CheckDuplicateNever(hist, d) == FALSE

CheckDuplicateLastOnly(hist, d) ==
    hist # <<>> /\ hist[Len(hist)].signature = Signature(d)

\* _check_duplicate, for a document whose content fields are strings
CheckDuplicate(hist, d) == HasSignature(hist, Signature(d))

\* the entry _add_to_history appends
NewEntry(d, date) ==
    [date |-> date,
     signature |-> Signature(d),
     cover_heading |-> Field(CoverOf(d), "heading_line1").v \o <<" ">>
                       \o Field(CoverOf(d), "heading_line2").v,
     hashtag |-> Field(CoverOf(d), "hashtag"),
     titles |-> [i \in 1..Len(PagesOf(d)) |-> Field(PagesOf(d)[i], "title")]]

LimitHistoryKeepOldest(hist) == Prefix(hist, HistoryCap)

LimitHistoryOffByOne(hist) ==
    IF Len(hist) >= HistoryCap THEN Suffix(hist, HistoryCap - 1) ELSE hist

LimitHistoryNever(hist) == hist

\* if len(h) > 100: h = h[-100:]
LimitHistory(hist) == Suffix(hist, HistoryCap)

\* An _add_to_history that would skip a document whose signature is known.
AddToHistoryUnlessKnown(hist, d, date) ==
    IF CheckDuplicate(hist, d) THEN hist
    ELSE LimitHistory(Append(hist, NewEntry(d, date)))

\* self.content_history after _add_to_history(d)
AddToHistory(hist, d, date) == LimitHistory(Append(hist, NewEntry(d, date)))

(***************************************************************************)
(* The history file.                                                       *)
(***************************************************************************)
FileMissing == [kind |-> "missing", entries |-> <<>>]
FileInvalidJson == [kind |-> "invalid_json", entries |-> <<>>]

\* json.dump(self.content_history, f): the file then holds the JSON array
JsonDump(hist) == [kind |-> "array", entries |-> hist]

\* a file whose bytes are not UTF-8: f.read() raises UnicodeDecodeError
FileUndecodable == [kind |-> "undecodable", entries |-> <<>>]

LoadHistoryNoExcept(file) ==
    IF file.kind = "array" THEN [exc |-> FALSE, hist |-> file.entries]
    ELSE IF file.kind = "missing" THEN [exc |-> FALSE, hist |-> <<>>]
    ELSE [exc |-> TRUE, hist |-> <<>>]

\* _load_history: [] for a missing file and for a JSONDecodeError; any
\* other error of open/read propagates out of __init__
LoadHistory(file) ==
    IF file.kind = "array" THEN [exc |-> FALSE, hist |-> file.entries]
    ELSE IF file.kind \in {"missing", "invalid_json"}
         THEN [exc |-> FALSE, hist |-> <<>>]
    ELSE [exc |-> TRUE, hist |-> <<>>]

\* _save_history: open(file, 'w') then json.dump; every exception is caught.
\* "ok": the file holds the dumped history; "open_fails": open raised, the
\* file is as it was; "dump_fails": open truncated the file and the write
\* raised, so the file holds no complete JSON text.
WriteOutcomes == {"ok", "open_fails", "dump_fails"}

\* A write that would put only the newest entry in the file.
SaveHistoryNewestOnly(file, hist, w) ==
    IF w = "ok" THEN JsonDump(Suffix(hist, 1))
    ELSE IF w = "open_fails" THEN file
    ELSE FileInvalidJson

\* A write that would add the newest entry to what the file holds.
SaveHistoryAppending(file, hist, w) ==
    IF w = "ok" THEN JsonDump(file.entries \o Suffix(hist, 1))
    ELSE IF w = "open_fails" THEN file
    ELSE FileInvalidJson

SaveHistory(file, hist, w) ==
    IF w = "ok" THEN JsonDump(hist)
    ELSE IF w = "open_fails" THEN file
    ELSE FileInvalidJson

(***************************************************************************)
(* The Generator's responses: result["messages"][-1].content.               *)
(*   shape "native": an InstagramPost (model_dump() gives doc)             *)
(*   shape "dict":   a mapping (doc)                                       *)
(*   shape "text":   a string; parse says what json.loads makes of it:     *)
(*                   "dict" (doc), "list" (a JSON value that is no         *)
(*                   object) or "fail" (JSONDecodeError)                   *)
(*   shape "other":  any other content (a list of content blocks)          *)
(*   shape "raises": react_agent.invoke itself raised                      *)
(***************************************************************************)
Page(title, main) == [title |-> JS(title), main_point |-> JS(main)]

Cover(tag, h1, h2, grey) ==
    [hashtag |-> tag, heading_line1 |-> JS(h1), heading_line2 |-> JS(h2),
     grey_box_text |-> grey]

Hooks == JS(<<"?">>)

Post(cover, caption, pages) ==
    [cover |-> cover, caption |-> caption, content_pages |-> pages,
     engagement_hooks |-> Hooks]

Tag == JS(<<"#", "A", "I">>)
Grey == JS(Str(4, "g"))
H2 == Str(2, "c")
ThreePages == <<Page(<<"t", "1">>, Str(5, "m")), Page(<<"t", "2">>, Str(5, "m")),
                Page(<<"t", "3">>, Str(5, "m"))>>
LongPages == <<Page(Str(TitleLimit + 1, "t"), Str(MainPointLimit + 1, "m")),
               Page(<<"t", "2">>, Str(MainPointLimit, "m"))>>
ManyPages == [i \in 1..(MaxPages + 1) |-> Page(<<"p">> \o Decimal(i), Str(5, "m"))]

DocA == Post(Cover(Tag, Str(3, "a"), H2, Grey), JS(Str(CaptionMin, "x")), ThreePages)
DocB == Post(Cover(Tag, Str(3, "b"), H2, Grey), JS(Str(CaptionMin, "x")), ThreePages)
DocLong ==
    Post(Cover(Tag, Str(SalvageHeadingLimit + 1, "a"), Str(HeadingLimit + 1, "c"),
               JS(Str(GreyBoxLimit + 1, "g"))),
         JS(Str(CaptionLimit + 1, "x")), LongPages)
DocShortCaption ==
    Post(Cover(Tag, Str(3, "d"), H2, Grey), JS(Str(CaptionMin - 1, "x")), <<>>)
DocNoPages ==
    [cover |-> Cover(Tag, Str(3, "a"), H2, Grey), caption |-> JS(Str(CaptionMin, "x"))]
DocMany == Post(Cover(Tag, Str(3, "a"), H2, Grey), JS(Str(CaptionMin, "x")), ManyPages)
DocNullGrey ==
    Post(Cover(Tag, Str(SalvageHeadingLimit + 1, "a"), H2, JNull),
         JS(Str(CaptionMin, "x")), <<>>)
DocNullTag ==
    Post(Cover(JNull, Str(SalvageHeadingLimit + 1, "a"), H2, Grey),
         JS(Str(CaptionMin, "x")), <<Page(<<"t", "1">>, Str(5, "m"))>>)
\* DocLong with other characters beyond the limits of heading_line1,
\* heading_line2 and the first title.
DocLongTail ==
    Post(Cover(Tag, Str(HeadingLimit, "a") \o Str(3, "z"),
               Str(HeadingLimit, "c") \o <<"y">>, JS(Str(GreyBoxLimit + 1, "g"))),
         JS(Str(CaptionLimit + 1, "x")),
         <<Page(Str(TitleLimit, "t") \o <<"u", "v">>, Str(MainPointLimit + 1, "m")),
           LongPages[2]>>)
\* DocLong with the third page already there, as the padding would write it.
DocLongPadded ==
    Post(Cover(Tag, Str(SalvageHeadingLimit + 1, "a"), Str(HeadingLimit + 1, "c"),
               JS(Str(GreyBoxLimit + 1, "g"))),
         JS(Str(CaptionLimit + 1, "x")), Append(LongPages, KeyPointPage(3)))

Response(shape, parse, doc) == [shape |-> shape, parse |-> parse, doc |-> doc]

Catalogue ==
    <<Response("dict", "dict", DocA),
      Response("dict", "dict", DocB),
      Response("dict", "dict", DocLong),
      Response("dict", "dict", DocShortCaption),
      Response("dict", "dict", DocNoPages),
      Response("native", "dict", DocB),
      Response("text", "dict", DocA),
      Response("text", "fail", EmptyObj),
      Response("other", "list", EmptyObj),
      Response("raises", "fail", EmptyObj),
      Response("dict", "dict", DocNullGrey),
      Response("dict", "dict", DocNullTag),
      Response("dict", "dict", DocMany),
      Response("dict", "dict", DocLongTail),
      Response("text", "dict", DocLongPadded)>>

\* The n-th of a family of valid documents with pairwise distinct headings.
FreshDoc(n) ==
    Post(Cover(Tag, <<"n">> \o Decimal(n), H2, Grey), JS(Str(CaptionMin, "x")),
         ThreePages)

FreshShapes == <<"dict", "native", "text">>

\* Identifiers of responses: 1..Len(Catalogue) name the catalogue; beyond it,
\* Len(Catalogue) + 3 * (n - 1) + k is FreshDoc(n) in the k-th shape.
ResponseOf(id) ==
    IF id <= Len(Catalogue) THEN Catalogue[id]
    ELSE LET j == id - Len(Catalogue) - 1
         IN  Response(FreshShapes[(j % 3) + 1], "dict", FreshDoc((j \div 3) + 1))

FreshId(n, k) == Len(Catalogue) + 3 * (n - 1) + k

(***************************************************************************)
(* State.                                                                  *)
(***************************************************************************)
VARIABLES
    history_file,      \* the content of self.history_file on disk
    content_history,   \* self.content_history
    pc,                \* "new", "crashed", "idle", "loop", "returned", "raised"
    attempt,           \* generate's local attempt
    max_attempts,      \* generate's argument
    content_json,      \* generate's local content_json
    prompt,            \* current_request of the last invocation
    result,            \* what the last generate call gave its caller
    via,               \* the return statement or raise that ended the call
    clock,             \* datetime.now(), as a count of ticks
    calls,             \* generate calls started on this instance
    invocations,       \* react_agent.invoke calls of the current generate call
    log,               \* identifiers of the responses of the current call
    hist0,             \* self.content_history when the current call started
    file0,             \* the file's content when the current call started
    adds,              \* _add_to_history calls of the current generate call
    loaded_from,       \* the kind of file __init__ met
    forced,            \* the dates of the entries appended by forced acceptance
    wrote,             \* the outcome of the write of the current call's accept
    peer,              \* which of two instances runs, and the state of the other
    r_in, r_once, r_twice, r_stage,  \* the repair applied to a document
    r_salvage,         \* the last-attempt handler's repair of the same document
    s_a, s_b,          \* two documents
    s_hist,            \* a history to which s_a was added
    s_dup,             \* _check_duplicate(s_b) on that history
    s_stage,           \* how far the comparison of s_a and s_b has got
    wf_node,           \* the node the workflow graph runs next
    wf,                \* the InstagramWorkflowState of the run
    wf_ran,            \* the nodes the run has executed, in order, and what each did
    wf_steps,          \* the steps the run has taken
    poster,            \* what InstagramPoster.post_to_instagram did and returned
    search             \* a call of the search tool search_with_retry

vars == <<history_file, content_history, pc, attempt, max_attempts, content_json,
          prompt, result, via, clock, calls, invocations, log, hist0,
          file0, adds, loaded_from, forced, wrote,
          r_in, r_once, r_twice, r_stage, r_salvage,
          s_a, s_b, s_hist, s_dup, s_stage, wf_node, wf, wf_ran, wf_steps,
          poster, search, peer>>

genVars == <<history_file, content_history, pc, attempt, max_attempts,
             content_json, prompt, result, via, clock, calls, invocations, log,
             hist0, file0, adds, loaded_from, forced, wrote>>

repairVars == <<r_in, r_once, r_twice, r_stage, r_salvage>>

sigVars == <<s_a, s_b, s_hist, s_dup, s_stage>>

flowVars == <<wf_node, wf, wf_ran, wf_steps, poster>>

searchVars == <<search>>

peerVars == <<peer>>

Unbound == [kind |-> "unbound", doc |-> EmptyObj]
Bound(kind, d) == [kind |-> kind, doc |-> d]
NoResult == [kind |-> "none", doc |-> EmptyObj, error |-> "none"]
Returned(d) == [kind |-> "doc", doc |-> d, error |-> "none"]
Raised(e) == [kind |-> "error", doc |-> EmptyObj, error |-> e]
NoPrompt == [request |-> "none", annex |-> FALSE, topics |-> <<>>]

BuildPromptOldest(hist, n) ==
    [request |-> "request",
     annex |-> n > 1,
     topics |-> IF n > 1
                THEN [i \in 1..Len(Prefix(hist, AnnexTopics)) |->
                         Prefix(hist, AnnexTopics)[i].cover_heading]
                ELSE <<>>]

(***************************************************************************)
(* One iteration of the while loop of generate.                            *)
(***************************************************************************)
\* current_request: the request, and from the second attempt on the annex
\* with the cover_heading of the last 30 history entries
BuildPrompt(hist, n) ==
    [request |-> "request",
     annex |-> n > 1,
     topics |-> IF n > 1
                THEN [i \in 1..Len(Suffix(hist, AnnexTopics)) |->
                         Suffix(hist, AnnexTopics)[i].cover_heading]
                ELSE <<>>]

\* A try block that would fingerprint the response as it came.
TryBlockChecksRaw(hist, r) ==
    IF r.shape = "text" /\ r.parse = "fail"
    THEN [exc |-> "ValueError", cj |-> Bound("other", EmptyObj), dup |-> FALSE]
    ELSE IF r.shape \in {"native", "dict"} \/ (r.shape = "text" /\ r.parse = "dict")
    THEN CHOOSE y \in
            {IF rep.exc \/ SignatureRaises(rep.doc)
             THEN [exc |-> "TypeError", cj |-> Bound("dict", rep.doc), dup |-> FALSE]
             ELSE [exc |-> "none", cj |-> Bound("dict", rep.doc),
                   dup |-> CheckDuplicate(hist, r.doc)] :
                rep \in {Repair(r.doc)}} : TRUE
    ELSE [exc |-> "AttributeError", cj |-> Bound("other", EmptyObj), dup |-> FALSE]

\* What the try block does with the response: [exc, cj, dup]
\*   exc: "none" or the exception raised; cj: content_json as left;
\*   dup: _check_duplicate's answer when exc = "none".
\* It raises the ValueError of an unparseable string, the TypeError of len(),
\* slicing or join on a null, and the AttributeError of .get on content that
\* is no mapping.  None of their messages holds "validation error" or
\* "string_too_long", so the handler's first branch (the validation fix) is
\* never taken and the handler goes on to its test of the last attempt.
TryBlock(hist, r) ==
    IF r.shape = "text" /\ r.parse = "fail"
    THEN [exc |-> "ValueError", cj |-> Bound("other", EmptyObj), dup |-> FALSE]
    ELSE IF r.shape \in {"native", "dict"} \/ (r.shape = "text" /\ r.parse = "dict")
    THEN CHOOSE y \in
            {IF rep.exc \/ SignatureRaises(rep.doc)
             THEN [exc |-> "TypeError", cj |-> Bound("dict", rep.doc), dup |-> FALSE]
             ELSE [exc |-> "none", cj |-> Bound("dict", rep.doc),
                   dup |-> CheckDuplicate(hist, rep.doc)] :
                rep \in {Repair(r.doc)}} : TRUE
    ELSE [exc |-> "AttributeError", cj |-> Bound("other", EmptyObj), dup |-> FALSE]

\* The handler of the last attempt: [next, cj, add, via, error]
LastAttemptHandler(hist, r, t) ==
    IF r.shape = "dict"
    THEN CHOOSE y \in
            {IF sal.exc \/ SignatureRaises(sal.doc)
             THEN [next |-> "raised", cj |-> Bound("dict", sal.doc), add |-> FALSE,
                   via |-> "handler", error |-> "TypeError"]
             ELSE IF ~CheckDuplicate(hist, sal.doc)
             THEN [next |-> "returned", cj |-> Bound("dict", sal.doc), add |-> TRUE,
                   via |-> "salvage", error |-> "none"]
             ELSE [next |-> "loop", cj |-> Bound("dict", sal.doc), add |-> FALSE,
                   via |-> "none", error |-> "none"] :
                sal \in {SalvageRepair(t.cj.doc)}} : TRUE
    ELSE [next |-> "raised", cj |-> t.cj, add |-> FALSE, via |-> "reraise",
          error |-> t.exc]

ForcedAcceptNever(n, m) == FALSE

ForcedAcceptAlways(n, m) == TRUE

\* if attempt == max_attempts: "Last attempt, use it anyway"
ForcedAccept(n, m) == n = m

HandlerGivesUpAtOnce(n, m) == TRUE

HandlerNeverLast(n, m) == FALSE

\* if attempt == max_attempts: the handler's test of the last attempt
HandlerIsLast(n, m) == n = m

DiscardedButRecorded(cj) ==
    [next |-> "loop", cj |-> cj, add |-> TRUE, via |-> "none", error |-> "none"]

\* An attempt that is given up, a duplicate before the last attempt or an
\* exception before the last attempt: nothing is recorded and the loop goes
\* on with content_json as the attempt left it.
Discarded(cj) ==
    [next |-> "loop", cj |-> cj, add |-> FALSE, via |-> "none", error |-> "none"]

\* The iteration after the invocation returned r, the n-th of m:
\* [next, cj, add, via, error]
Iteration(hist, r, n, m) ==
    CHOOSE y \in
        {IF t.exc = "none"
         THEN IF ~t.dup
              THEN [next |-> "returned", cj |-> t.cj, add |-> TRUE, via |-> "unique",
                    error |-> "none"]
              ELSE IF ForcedAccept(n, m)
              THEN [next |-> "returned", cj |-> t.cj, add |-> TRUE, via |-> "forced",
                    error |-> "none"]
              ELSE Discarded(t.cj)
         ELSE IF HandlerIsLast(n, m)
              THEN LastAttemptHandler(hist, r, t)
              ELSE Discarded(t.cj) :
            t \in {TryBlock(hist, r)}} : TRUE

(***************************************************************************)
(* Actions.                                                                *)
(***************************************************************************)
\* ContentAgent.__init__: self.content_history = self._load_history()
Construct ==
    /\ pc = "new"
    /\ LET l == LoadHistory(history_file)
       IN  /\ content_history' = l.hist
           /\ pc' = IF l.exc THEN "crashed" ELSE "idle"
    /\ loaded_from' = history_file.kind
    /\ UNCHANGED <<history_file, attempt, max_attempts, content_json, prompt, result,
                   via, clock, calls, invocations, log, hist0,
                   file0, adds, forced, wrote>>
    /\ UNCHANGED repairVars
    /\ UNCHANGED sigVars
    /\ UNCHANGED flowVars
    /\ UNCHANGED peerVars
    /\ UNCHANGED searchVars

\* generate(request, max_attempts=m) is entered: attempt = 0
BeginGenerate(m, limit) ==
    /\ pc = "idle"
    /\ calls < limit
    /\ pc' = "loop"
    /\ attempt' = 0
    /\ max_attempts' = m
    /\ content_json' = Unbound
    /\ prompt' = NoPrompt
    /\ result' = NoResult
    /\ via' = "none"
    /\ calls' = calls + 1
    /\ invocations' = 0
    /\ log' = <<>>
    /\ hist0' = content_history
    /\ file0' = history_file
    /\ adds' = 0
    /\ wrote' = "none"
    /\ UNCHANGED <<history_file, content_history, clock, loaded_from, forced>>
    /\ UNCHANGED repairVars
    /\ UNCHANGED sigVars
    /\ UNCHANGED flowVars
    /\ UNCHANGED peerVars
    /\ UNCHANGED searchVars

\* One pass through the body of `while attempt < max_attempts', the
\* Generator answering with response id; w is the outcome of the write of
\* _save_history, should the pass reach it.
Attempt(id, w) ==
    /\ pc = "loop"
    /\ attempt < max_attempts
    /\ attempt' = attempt + 1
    /\ prompt' = BuildPrompt(content_history, attempt + 1)
    /\ invocations' = invocations + 1
    /\ log' = Append(log, id)
    /\ IF ResponseOf(id).shape = "raises"
       THEN /\ w = "ok"
            /\ pc' = "raised"
            /\ result' = Raised("GeneratorError")
            /\ via' = "invoke"
            /\ UNCHANGED <<content_json, content_history, history_file, clock, adds>>
       ELSE \E o \in {Iteration(content_history, ResponseOf(id),
                                attempt + 1, max_attempts)} :
                /\ pc' = o.next
                /\ content_json' = o.cj
                /\ via' = o.via
                /\ result' = IF o.next = "returned" THEN Returned(o.cj.doc)
                             ELSE IF o.next = "raised" THEN Raised(o.error)
                             ELSE result
                /\ IF o.add
                   THEN \E h \in {AddToHistory(content_history, o.cj.doc, clock)} :
                            /\ content_history' = h
                            /\ history_file' = SaveHistory(history_file, h, w)
                            /\ clock' = clock + 1
                            /\ adds' = adds + 1
                   ELSE /\ w = "ok"
                        /\ UNCHANGED <<content_history, history_file, clock, adds>>
    /\ forced' = IF via' = "forced" THEN forced \cup {clock} ELSE forced
    /\ wrote' = IF adds' = adds + 1 THEN w ELSE wrote
    /\ UNCHANGED <<max_attempts, calls, hist0, file0, loaded_from>>
    /\ UNCHANGED repairVars
    /\ UNCHANGED sigVars
    /\ UNCHANGED flowVars
    /\ UNCHANGED peerVars
    /\ UNCHANGED searchVars

\* The loop ended without a return: "use the last generated content"
ExitLoop ==
    /\ pc = "loop"
    /\ attempt >= max_attempts
    /\ IF content_json.kind = "unbound"
       THEN /\ pc' = "raised"
            /\ result' = Raised("UnboundLocalError")
       ELSE /\ pc' = "returned"
            /\ result' = Returned(content_json.doc)
    /\ via' = "fallthrough"
    /\ UNCHANGED <<history_file, content_history, attempt, max_attempts, content_json,
                   prompt, clock, calls, invocations, log, hist0, file0, adds,
                   loaded_from, forced, wrote>>
    /\ UNCHANGED repairVars
    /\ UNCHANGED sigVars
    /\ UNCHANGED flowVars
    /\ UNCHANGED peerVars
    /\ UNCHANGED searchVars

\* The caller has the result and generate's frame is gone; the instance is
\* ready for another call.
Finish ==
    /\ pc \in {"returned", "raised"}
    /\ pc' = "idle"
    /\ attempt' = 0
    /\ max_attempts' = 0
    /\ content_json' = Unbound
    /\ prompt' = NoPrompt
    /\ result' = NoResult
    /\ via' = "none"
    /\ invocations' = 0
    /\ log' = <<>>
    /\ hist0' = <<>>
    /\ file0' = FileMissing
    /\ adds' = 0
    /\ wrote' = "none"
    /\ UNCHANGED <<history_file, content_history, clock, calls, loaded_from, forced>>
    /\ UNCHANGED repairVars
    /\ UNCHANGED sigVars
    /\ UNCHANGED flowVars
    /\ UNCHANGED peerVars
    /\ UNCHANGED searchVars

(***************************************************************************)
(* Spec: one instance, from construction on, with every response of the    *)
(* catalogue possible at every invocation.                                 *)
(***************************************************************************)
\* Histories a previous run may have left in the file.
EntryA == NewEntry(DocA, 0)
EntryB == NewEntry(DocB, 1)

InitialFiles ==
    {FileMissing, FileInvalidJson, FileUndecodable,
     JsonDump(<<EntryA>>), JsonDump(<<EntryA, EntryB>>)}

RepairIdle ==
    /\ r_in = EmptyObj
    /\ r_once = Ok(EmptyObj)
    /\ r_twice = Ok(EmptyObj)
    /\ r_stage = 0
    /\ r_salvage = Ok(EmptyObj)

SigIdle ==
    /\ s_a = EmptyObj
    /\ s_b = EmptyObj
    /\ s_hist = <<>>
    /\ s_dup = FALSE
    /\ s_stage = 0

(***************************************************************************)
(* The workflow graph of graph.py and its state.                           *)
(*   content_json is "None", "empty" (a mapping that is falsy) or "doc";   *)
(*   image_paths is "None", "empty" (the list []) or "paths";              *)
(*   a status mapping is a function from its keys, or None.                *)
(***************************************************************************)
None == [none |-> TRUE]

create_initial_state(email, post) ==
    [recipient_email |-> email,
     post_to_instagram |-> post,
     current_stage |-> "content",
     content_json |-> "None",
     image_paths |-> "None",
     content_status |-> "None",
     image_status |-> "None",
     notification_status |-> None,
     instagram_status |-> None,
     errors |-> <<>>,
     results |-> None]

\* truthiness of content_json and of image_paths
Truthy(x) == x \in {"doc", "paths"}

images_whatever_the_status(st) == "generate_images"

should_continue_to_images(st) ==
    IF st.content_status = "success" /\ Truthy(st.content_json)
    THEN "generate_images"
    ELSE "handle_error"

instagram_before_notification(st) ==
    IF st.image_status = "success"
    THEN IF st.post_to_instagram THEN "post_instagram"
         ELSE IF st.recipient_email THEN "send_notification"
         ELSE "complete_workflow"
    ELSE "complete_workflow"

should_continue_to_notification(st) ==
    IF st.image_status = "success"
    THEN IF st.recipient_email THEN "send_notification"
         ELSE IF st.post_to_instagram THEN "post_instagram"
         ELSE "complete_workflow"
    ELSE "complete_workflow"

should_continue_to_instagram(st) ==
    IF st.post_to_instagram THEN "post_instagram" ELSE "complete_workflow"

\* supervisor_node: the node it sends the run to
supervisor_route(st) ==
    IF st.current_stage = "content" THEN should_continue_to_images(st)
    ELSE IF st.current_stage = "images" THEN should_continue_to_notification(st)
    ELSE IF st.current_stage = "notification" THEN should_continue_to_instagram(st)
    ELSE "complete_workflow"

\* complete_workflow_node: the results mapping
CompleteResults(st) ==
    [k \in {"content", "image_paths"}
           \cup (IF st.notification_status # None THEN {"notification"} ELSE {})
           \cup (IF st.instagram_status # None THEN {"instagram"} ELSE {})
           \cup (IF st.errors # <<>> THEN {"errors"} ELSE {}) |->
        IF k = "content" THEN [v |-> st.content_json]
        ELSE IF k = "image_paths" THEN [v |-> st.image_paths]
        ELSE IF k = "notification" THEN st.notification_status
        ELSE IF k = "instagram" THEN st.instagram_status
        ELSE [v |-> st.errors]]

\* handle_error_node: the results mapping
ErrorResults(st) == [status |-> [v |-> "error"], errors |-> [v |-> st.errors]]

(***************************************************************************)
(* InstagramPoster.post_to_instagram.  creds: username and password are    *)
(* set; lib: instagrapi is installed; nvalid: how many of the prepared     *)
(* paths exist; login, album, photo: "ok" or "fail", what client.login,    *)
(* client.album_upload and client.photo_upload do when called.             *)
(* The value is [login, album, photo, out]: whether login was called,      *)
(* what each upload did ("none" when not called), and the mapping returned.*)
(***************************************************************************)
NotPosted(why) == [posted |-> FALSE, error |-> why]
Posted(type) == [posted |-> TRUE, type |-> type]

UploadAlwaysSucceeded(album, photo) == TRUE

\* posted is True exactly on the branches that follow a returned upload call
UploadSucceeded(album, photo) == album = "ok" \/ photo = "ok"

post_to_instagram(creds, lib, nvalid, login, album, photo) ==
    IF ~creds
    THEN [login |-> FALSE, album |-> "none", photo |-> "none",
          out |-> NotPosted("Instagram credentials not provided")]
    ELSE IF ~lib
    THEN [login |-> FALSE, album |-> "none", photo |-> "none",
          out |-> [posted |-> FALSE, simulated |-> TRUE]]
    ELSE IF nvalid = 0
    THEN [login |-> FALSE, album |-> "none", photo |-> "none",
          out |-> NotPosted("No valid image paths provided")]
    ELSE IF login = "fail"
    THEN [login |-> TRUE, album |-> "none", photo |-> "none",
          out |-> NotPosted("login")]
    ELSE IF nvalid > 1
    THEN IF album = "ok"
         THEN [login |-> TRUE, album |-> "ok", photo |-> "none",
               out |-> Posted("carousel")]
         ELSE [login |-> TRUE, album |-> "fail", photo |-> photo,
               out |-> IF UploadSucceeded("fail", photo) THEN Posted("single")
                       ELSE NotPosted("upload")]
    ELSE [login |-> TRUE, album |-> "none", photo |-> photo,
          out |-> IF UploadSucceeded("none", photo) THEN Posted("single")
                  ELSE NotPosted("upload")]

NoPost ==
    [called |-> FALSE, creds |-> FALSE, lib |-> FALSE, nvalid |-> 0, login |-> FALSE,
     album |-> "none", photo |-> "none", out |-> None]

FlowIdle ==
    /\ wf_node = "idle"
    /\ wf = create_initial_state(FALSE, FALSE)
    /\ wf_ran = <<>>
    /\ wf_steps = 0
    /\ poster = NoPost

(***************************************************************************)
(* search_with_retry, the search tool of the Generator.                    *)
(***************************************************************************)
NoSearch ==
    [pc |-> "idle", query |-> "none", max_retries |-> 0, attempt |-> 0, calls |-> 0,
     sleeps |-> <<>>, log |-> <<>>, out |-> "none"]

SearchIdle == search = NoSearch

\* A ContentAgent that is not constructed yet: what a second process, which
\* runs generate_content_node on the same history file, has of its own.
NotConstructed ==
    [content_history |-> <<>>, pc |-> "new", attempt |-> 0, max_attempts |-> 0,
     content_json |-> Unbound, prompt |-> NoPrompt, result |-> NoResult,
     via |-> "none", calls |-> 0, invocations |-> 0, log |-> <<>>, hist0 |-> <<>>,
     file0 |-> FileMissing, adds |-> 0, loaded_from |-> "none", wrote |-> "none"]

PeerIdle == peer = [active |-> 1, parked |-> NotConstructed]

Init ==
    /\ history_file \in InitialFiles
    /\ content_history = <<>>
    /\ pc = "new"
    /\ attempt = 0
    /\ max_attempts = 0
    /\ content_json = Unbound
    /\ prompt = NoPrompt
    /\ result = NoResult
    /\ via = "none"
    /\ clock = 2
    /\ calls = 0
    /\ invocations = 0
    /\ log = <<>>
    /\ hist0 = <<>>
    /\ file0 = FileMissing
    /\ adds = 0
    /\ loaded_from = "none"
    /\ forced = {}
    /\ wrote = "none"
    /\ RepairIdle
    /\ SigIdle
    /\ FlowIdle
    /\ SearchIdle
    /\ PeerIdle

Next ==
    \/ Construct
    \/ \E m \in 0..DefaultMaxAttempts : BeginGenerate(m, MaxCalls)
    \/ \E id \in 1..Len(Catalogue), w \in WriteOutcomes : Attempt(id, w)
    \/ ExitLoop
    \/ Finish

Spec == Init /\ [][Next]_vars

(***************************************************************************)
(* SpecCap: one instance on a fresh file, called again and again with the  *)
(* default max_attempts; the Generator answers the n-th call with the      *)
(* n-th fresh document, in any of the three shapes, and every write        *)
(* succeeds.                                                               *)
(***************************************************************************)
InitCap ==
    /\ history_file = FileMissing
    /\ content_history = <<>>
    /\ pc = "new"
    /\ attempt = 0
    /\ max_attempts = 0
    /\ content_json = Unbound
    /\ prompt = NoPrompt
    /\ result = NoResult
    /\ via = "none"
    /\ clock = 0
    /\ calls = 0
    /\ invocations = 0
    /\ log = <<>>
    /\ hist0 = <<>>
    /\ file0 = FileMissing
    /\ adds = 0
    /\ loaded_from = "none"
    /\ forced = {}
    /\ wrote = "none"
    /\ RepairIdle
    /\ SigIdle
    /\ FlowIdle
    /\ SearchIdle
    /\ PeerIdle

NextCap ==
    \/ Construct
    \/ BeginGenerate(DefaultMaxAttempts, CapCalls)
    \/ \E k \in 1..Len(FreshShapes) : Attempt(FreshId(calls, k), "ok")
    \/ Finish

SpecCap == InitCap /\ [][NextCap]_vars

(***************************************************************************)
(* SpecRepair: the repair of the try block as a function of the document:  *)
(* applied to a document, and applied again to what it gave.               *)
(***************************************************************************)
\* c pages; the first has an over-long title, the second an over-long text
InputPages(c) ==
    [i \in 1..c |->
        Page(IF i = 1 THEN Str(TitleLimit + 1, "t") ELSE <<"t">> \o Decimal(i),
             IF i = 2 THEN Str(MainPointLimit + 1, "m") ELSE Str(5, "m"))]

InputHeadings ==
    {Str(3, "a"), Str(HeadingLimit, "a"), Str(HeadingLimit + 1, "a"),
     Str(SalvageHeadingLimit + 1, "a")}

InputGreys == {Grey, JS(Str(GreyBoxLimit + 1, "g")), JNull}

InputCaptions ==
    {JS(Str(CaptionMin - 1, "x")), JS(Str(CaptionLimit, "x")),
     JS(Str(CaptionLimit + 1, "x"))}

RepairInputs ==
    {Post(Cover(Tag, h, H2, g), c, InputPages(n)) :
        h \in InputHeadings, g \in InputGreys, c \in InputCaptions,
        n \in 0..MaxInputPages}
    \cup {[cover |-> Cover(Tag, h, H2, Grey), caption |-> c] :
            h \in InputHeadings, c \in InputCaptions}
    \cup {[content_pages |-> InputPages(n)] : n \in 0..MaxInputPages}

GenIdle ==
    /\ history_file = FileMissing
    /\ content_history = <<>>
    /\ pc = "idle"
    /\ attempt = 0
    /\ max_attempts = 0
    /\ content_json = Unbound
    /\ prompt = NoPrompt
    /\ result = NoResult
    /\ via = "none"
    /\ clock = 0
    /\ calls = 0
    /\ invocations = 0
    /\ log = <<>>
    /\ hist0 = <<>>
    /\ file0 = FileMissing
    /\ adds = 0
    /\ loaded_from = "missing"
    /\ forced = {}
    /\ wrote = "none"

InitRepair ==
    /\ GenIdle
    /\ SigIdle
    /\ FlowIdle
    /\ SearchIdle
    /\ PeerIdle
    /\ r_in \in RepairInputs
    /\ r_once = Ok(EmptyObj)
    /\ r_twice = Ok(EmptyObj)
    /\ r_stage = 0
    /\ r_salvage = Ok(EmptyObj)

\* the repair is applied to the document
RepairOnce ==
    /\ r_stage = 0
    /\ r_once' = Repair(r_in)
    /\ r_stage' = 1
    /\ UNCHANGED <<r_in, r_twice, r_salvage>>
    /\ UNCHANGED genVars
    /\ UNCHANGED sigVars
    /\ UNCHANGED flowVars
    /\ UNCHANGED peerVars
    /\ UNCHANGED searchVars

\* the repair is applied to the repaired document
RepairTwice ==
    /\ r_stage = 1
    /\ ~r_once.exc
    /\ r_twice' = Repair(r_once.doc)
    /\ r_stage' = 2
    /\ UNCHANGED <<r_in, r_once, r_salvage>>
    /\ UNCHANGED genVars
    /\ UNCHANGED sigVars
    /\ UNCHANGED flowVars
    /\ UNCHANGED peerVars
    /\ UNCHANGED searchVars

NextRepair == RepairOnce \/ RepairTwice

SpecRepair == InitRepair /\ [][NextRepair]_vars

(***************************************************************************)
(* Properties.                                                             *)
(***************************************************************************)
\* The response is, or parses to, a mapping that the try block repairs and
\* fingerprints without raising.
Processable(id) ==
    LET r == ResponseOf(id)
    IN  /\ r.shape \in {"native", "dict"} \/ (r.shape = "text" /\ r.parse = "dict")
        /\ ~Repair(r.doc).exc
        /\ ~SignatureRaises(Repair(r.doc).doc)

RepairedOf(id) == Repair(ResponseOf(id).doc).doc
SigOf(id) == Signature(RepairedOf(id))

\* The response's signature is in the history the call started with.
KnownAtStart(id) == \E i \in 1..Len(hist0) : hist0[i].signature = SigOf(id)

\* The first n responses of the call are documents whose signatures the
\* history already held.
AllDuplicates(n) ==
    \A i \in 1..n : i <= Len(log) /\ Processable(log[i]) /\ KnownAtStart(log[i])

\* The history is what it was when the call started, then one entry for
\* the document of response id.
GainedOneEntryFor(id) ==
    /\ Len(content_history) = Len(hist0) + 1
    /\ SubSeq(content_history, 1, Len(hist0)) = hist0
    /\ content_history[Len(content_history)].signature = SigOf(id)

\* C1 Duplicate suppression: when the responses of attempts 1..k-1 are
\* documents whose signature the history held and the response of attempt
\* k <= max_attempts is a document with a signature it did not hold, generate
\* has returned the (repaired) document of attempt k after exactly k
\* invocations and the history has gained exactly one entry, for that
\* document; and as long as every response so far was such a duplicate and
\* attempts remain, generate is still in its loop with the history untouched.
C1_DuplicateSuppression ==
    /\ \A k \in 1..Len(log) :
          (/\ k <= max_attempts
           /\ AllDuplicates(k - 1)
           /\ Processable(log[k])
           /\ ~KnownAtStart(log[k]))
          => /\ pc = "returned"
             /\ Len(log) = k
             /\ invocations = k
             /\ result = Returned(RepairedOf(log[k]))
             /\ GainedOneEntryFor(log[k])
    /\ (pc # "idle" /\ Len(log) < max_attempts /\ AllDuplicates(Len(log)))
          => pc = "loop" /\ content_history = hist0 /\ invocations = Len(log)

C1_Witness ==
    /\ pc = "returned"
    /\ Len(log) = 3
    /\ AllDuplicates(2)
    /\ SigOf(log[1]) = SigOf(log[2])
    /\ Processable(log[3])
    /\ ~KnownAtStart(log[3])
    /\ invocations = 3

\* C2 Forced acceptance on exhaustion: when every one of the max_attempts
\* (1..3, 3 by default) responses is a document whose signature the history
\* held, generate has returned the (repaired) document of the last attempt
\* after exactly max_attempts invocations, and the history has gained
\* exactly one entry.
C2_ForcedAcceptance ==
    (max_attempts >= 1 /\ Len(log) = max_attempts /\ AllDuplicates(max_attempts))
    => /\ pc = "returned"
       /\ invocations = max_attempts
       /\ result = Returned(RepairedOf(log[max_attempts]))
       /\ GainedOneEntryFor(log[max_attempts])

C2_Witness ==
    /\ max_attempts = DefaultMaxAttempts
    /\ Len(log) = DefaultMaxAttempts
    /\ AllDuplicates(DefaultMaxAttempts)
    /\ pc = "returned"
    /\ via = "forced"
    /\ Len(content_history) = Len(hist0) + 1

\* The string at key k of obj, when the key is there, is at most n long.
AtMost(obj, k, n) == k \in DOMAIN obj => Len(obj[k].v) <= n

\* C3 Length upper bounds: every document generate returns has
\* heading_line1 and grey_box_text of at most 20 characters (the limits of
\* Cover), every page title at most 35 and main_point at most 350, and a
\* caption of at most 800.
C3_LengthUpperBounds ==
    pc = "returned" =>
        /\ AtMost(CoverOf(result.doc), "heading_line1", HeadingLimit)
        /\ AtMost(CoverOf(result.doc), "grey_box_text", GreyBoxLimit)
        /\ \A i \in 1..Len(PagesOf(result.doc)) :
              /\ AtMost(PagesOf(result.doc)[i], "title", TitleLimit)
              /\ AtMost(PagesOf(result.doc)[i], "main_point", MainPointLimit)
        /\ AtMost(result.doc, "caption", CaptionLimit)

\* A document is returned whose response had every one of the fields too long.
C3_Witness ==
    /\ pc = "returned"
    /\ LET raw == ResponseOf(log[Len(log)]).doc
       IN  /\ Len(raw.cover.heading_line1.v) > SalvageHeadingLimit
           /\ Len(raw.cover.grey_box_text.v) > GreyBoxLimit
           /\ Len(raw.caption.v) > CaptionLimit
           /\ Len(raw.content_pages[1].title.v) > TitleLimit
           /\ Len(raw.content_pages[1].main_point.v) > MainPointLimit

\* C4 Caption minimum: every document generate returns has a caption of at
\* least 100 characters.
C4_CaptionMinimum ==
    pc = "returned" =>
        /\ "caption" \in DOMAIN result.doc
        /\ Len(result.doc.caption.v) >= CaptionMin

\* C5 Page-count floor: every document generate returns has at least 3
\* content pages.
C5_PageCountFloor ==
    pc = "returned" => Len(PagesOf(result.doc)) >= MinPages

\* What the truncation makes of a page.
Truncated(p) ==
    [k \in DOMAIN p |->
        JS(Prefix(p[k].v, IF k = "title" THEN TitleLimit ELSE MainPointLimit))]

C7_IdempotentRepair ==
    r_stage = 2 => (~r_twice.exc /\ r_twice.doc = r_once.doc)

\* The first repair both truncated and padded.
C7_Witness ==
    /\ r_stage = 2
    /\ "content_pages" \in DOMAIN r_in
    /\ Len(r_in.content_pages) = 1
    /\ Len(r_once.doc.content_pages) > Len(r_in.content_pages)
    /\ "caption" \in DOMAIN r_in
    /\ Len(r_in.caption.v) > CaptionLimit
    /\ r_twice.doc = r_once.doc

\* C8 History cap with FIFO eviction: after n accepted calls with pairwise
\* distinct signatures on an empty history, the history holds the entries of
\* the last min(n, 100) calls in the order of the calls; after 101 calls it
\* holds those of calls 2..101.
C8_HistoryCapFifo ==
    pc \in {"returned", "idle"} =>
        /\ Len(content_history) = IF calls <= HistoryCap THEN calls ELSE HistoryCap
        /\ \A i \in 1..Len(content_history) :
              content_history[i].signature =
                  Signature(FreshDoc(calls - Len(content_history) + i))

C8_Witness ==
    /\ pc = "returned"
    /\ calls = HistoryCap + 1
    /\ Len(content_history) = HistoryCap
    /\ content_history[1].signature = Signature(FreshDoc(2))
    /\ content_history[HistoryCap].signature = Signature(FreshDoc(HistoryCap + 1))

\* C9 Malformed JSON tolerance: when the first response is an unparseable
\* string and max_attempts >= 2, generate goes on to a second invocation
\* without raising and with the history untouched; when the second response
\* is a mapping with a signature the history does not hold, generate has
\* returned its (repaired) document after exactly 2 invocations and the
\* history has gained exactly one entry.
Unparseable(id) == ResponseOf(id).shape = "text" /\ ResponseOf(id).parse = "fail"

C9_MalformedJsonTolerance ==
    (Len(log) >= 1 /\ Unparseable(log[1]) /\ max_attempts >= 2)
    => /\ Len(log) = 1 => (pc = "loop" /\ content_history = hist0)
       /\ (/\ Len(log) >= 2
           /\ ResponseOf(log[2]).shape = "dict"
           /\ Processable(log[2])
           /\ ~KnownAtStart(log[2]))
          => /\ pc = "returned"
             /\ Len(log) = 2
             /\ invocations = 2
             /\ result = Returned(RepairedOf(log[2]))
             /\ GainedOneEntryFor(log[2])

C9_Witness ==
    /\ Len(log) = 2
    /\ Unparseable(log[1])
    /\ ResponseOf(log[2]).shape = "dict"
    /\ Processable(log[2])
    /\ ~KnownAtStart(log[2])
    /\ pc = "returned"
    /\ invocations = 2

InvokeRaised(k) == k <= Len(log) /\ ResponseOf(log[k]).shape = "raises"

\* C11 Generator failure is retried: when the Generator invocation raises on
\* an attempt that is not the last allowed one, generate does not pass the
\* error on to its caller but goes on to the next attempt.
C11_GeneratorFailureRetried ==
    (Len(log) >= 1 /\ InvokeRaised(Len(log)) /\ Len(log) < max_attempts)
    => pc = "loop"

\* The first n responses of the call are strings that json.loads rejects.
AllUnparseable(n) == \A i \in 1..n : i <= Len(log) /\ Unparseable(log[i])

\* C12 Exhaustion with no usable content: when every one of the
\* max_attempts >= 1 responses is a string that does not parse as JSON,
\* generate has invoked the Generator exactly max_attempts times and raised
\* to its caller, and the history in memory and the history file are what
\* they were when the call started; before the last attempt generate is
\* still in its loop, history and file untouched.
C12_ExhaustionRaises ==
    /\ (max_attempts >= 1 /\ Len(log) = max_attempts /\ AllUnparseable(max_attempts))
       => /\ pc = "raised"
          /\ invocations = max_attempts
          /\ result = Raised("ValueError")
          /\ content_history = hist0
          /\ history_file = file0
          /\ adds = 0
    /\ (pc # "idle" /\ Len(log) < max_attempts /\ AllUnparseable(Len(log)))
       => /\ pc = "loop"
          /\ invocations = Len(log)
          /\ content_history = hist0
          /\ history_file = file0

C12_Witness ==
    /\ max_attempts = DefaultMaxAttempts
    /\ Len(log) = DefaultMaxAttempts
    /\ AllUnparseable(DefaultMaxAttempts)
    /\ pc = "raised"
    /\ invocations = DefaultMaxAttempts
    /\ Len(hist0) > 0
    /\ content_history = hist0

(***************************************************************************)
(* SpecSeq: one instance called twice in a row, each call with 1 or 2      *)
(* attempts, the Generator answering with a few documents or with text     *)
(* that does not parse, and every write of the file succeeding or failing. *)
(***************************************************************************)
SeqCalls == 2
SeqMaxAttempts == 2

\* DocA, DocB, DocNoPages as mappings and the unparseable string
SeqResponses == {1, 2, 5, 8}

NextSeq ==
    \/ Construct
    \/ \E m \in 1..SeqMaxAttempts : BeginGenerate(m, SeqCalls)
    \/ \E id \in SeqResponses, w \in WriteOutcomes : Attempt(id, w)
    \/ Finish

SpecSeq == Init /\ [][NextSeq]_vars

\* The last write of the file did not put the history there.
WriteFailed(file, hist) == Len(hist) > 0 /\ file # JsonDump(hist)

\* C13 Persistence failure is non-fatal: when the write of the history file
\* fails as a document is accepted, generate has returned that document
\* (not raised) and the history in memory ends with its entry, so that
\* _check_duplicate finds it; and in the next call on the instance a first
\* response with that signature is treated as a duplicate (retried, or
\* accepted only as the forced last attempt).
C13_PersistenceFailureNonFatal ==
    /\ (pc \in {"returned", "raised"} /\ adds = 1
        /\ WriteFailed(history_file, content_history))
       => /\ pc = "returned"
          /\ result.kind = "doc"
          /\ content_history[Len(content_history)].signature = Signature(result.doc)
          /\ Len(content_history) = Len(hist0) + 1
          /\ CheckDuplicate(content_history, result.doc)
    /\ (/\ calls = 2
        /\ WriteFailed(file0, hist0)
        /\ Len(log) >= 1
        /\ Processable(log[1])
        /\ SigOf(log[1]) = hist0[Len(hist0)].signature)
       => IF max_attempts = 1
          THEN pc = "returned" /\ via = "forced"
          ELSE Len(log) = 1 => (pc = "loop" /\ content_history = hist0)

\* The write failed in the first call, and the second call met the same
\* document again and went on to a second attempt.
C13_Witness ==
    /\ calls = 2
    /\ WriteFailed(file0, hist0)
    /\ Len(hist0) = 1
    /\ file0 = FileInvalidJson
    /\ max_attempts = 2
    /\ Len(log) = 1
    /\ Processable(log[1])
    /\ SigOf(log[1]) = hist0[1].signature
    /\ pc = "loop"

(***************************************************************************)
(* SpecAnnex: an instance constructed on a file that holds the entries of  *)
(* h earlier documents, then called; the Generator answers with the first  *)
(* of those documents again, with a new document, or with text that does   *)
(* not parse.                                                              *)
(***************************************************************************)
AnnexMaxHistory == 32

FreshHistory(h) == [i \in 1..h |-> NewEntry(FreshDoc(i), i)]

AnnexResponses ==
    {FreshId(1, 1), FreshId(AnnexMaxHistory + 1, 2), FreshId(AnnexMaxHistory + 2, 3), 8}

InitAnnex ==
    /\ history_file \in {JsonDump(FreshHistory(h)) : h \in 0..AnnexMaxHistory}
    /\ content_history = <<>>
    /\ pc = "new"
    /\ attempt = 0
    /\ max_attempts = 0
    /\ content_json = Unbound
    /\ prompt = NoPrompt
    /\ result = NoResult
    /\ via = "none"
    /\ clock = AnnexMaxHistory + 1
    /\ calls = 0
    /\ invocations = 0
    /\ log = <<>>
    /\ hist0 = <<>>
    /\ file0 = FileMissing
    /\ adds = 0
    /\ loaded_from = "none"
    /\ forced = {}
    /\ wrote = "none"
    /\ RepairIdle
    /\ SigIdle
    /\ FlowIdle
    /\ SearchIdle
    /\ PeerIdle

NextAnnex ==
    \/ Construct
    \/ \E m \in 1..DefaultMaxAttempts : BeginGenerate(m, MaxCalls)
    \/ \E id \in AnnexResponses : Attempt(id, "ok")
    \/ Finish

SpecAnnex == InitAnnex /\ [][NextAnnex]_vars

\* C14 Retry annex: the prompt of attempt 1 is the request and nothing
\* else; the prompt of an attempt n >= 2 is the request followed by the
\* annex, which lists the cover_heading of the min(30, len(history)) most
\* recent entries of the history, in the order of the history, and of no
\* entry older than those.
C14_RetryAnnex ==
    (pc \in {"loop", "returned", "raised"} /\ Len(log) >= 1)
    => /\ prompt.request = "request"
       /\ Len(log) = 1 => (~prompt.annex /\ prompt.topics = <<>>)
       /\ Len(log) >= 2 =>
             LET k == IF Len(hist0) < AnnexTopics THEN Len(hist0) ELSE AnnexTopics
             IN  /\ prompt.annex
                 /\ Len(prompt.topics) = k
                 /\ \A i \in 1..k :
                       prompt.topics[i] = hist0[Len(hist0) - k + i].cover_heading

\* A second attempt was made on a history of more than 30 entries.
C14_Witness ==
    /\ pc = "loop"
    /\ Len(log) = 2
    /\ Len(hist0) = AnnexTopics + 2
    /\ prompt.annex
    /\ Len(prompt.topics) = AnnexTopics
    /\ prompt.topics[1] = hist0[3].cover_heading
    /\ prompt.topics[1] # hist0[1].cover_heading

\* C15 History is mutated only on acceptance and acceptance ends the call:
\* within one generate call _add_to_history runs at most once (one append,
\* one rewrite of the file), once it has run the call has returned and no
\* further invocation follows, and as long as it has not run, whatever
\* attempts were discarded or failed, history and file are what they were
\* when the call started.
C15_HistoryMutatedOnce ==
    pc \in {"loop", "returned", "raised"}
    => /\ adds <= 1
       /\ adds = 1 =>
             /\ pc = "returned"
             /\ invocations = Len(log)
             /\ Len(content_history) = Len(hist0) + 1
             /\ SubSeq(content_history, 1, Len(hist0)) = hist0
             /\ history_file \in {JsonDump(content_history), file0, FileInvalidJson}
       /\ adds = 0 => (content_history = hist0 /\ history_file = file0)

\* A call that discarded a duplicate and a failed attempt before it
\* accepted a document, on a history that was not empty.
C15_Witness ==
    /\ pc = "returned"
    /\ adds = 1
    /\ Len(log) = 3
    /\ Processable(log[1]) /\ KnownAtStart(log[1])
    /\ Unparseable(log[2])
    /\ Len(hist0) > 0
    /\ history_file = JsonDump(content_history)
    /\ history_file # file0

(***************************************************************************)
(* SpecSig: a document s_a is added to an empty history and a document     *)
(* s_b is then checked against it.  The documents differ in where the      *)
(* characters of headings, hashtag and titles are cut into fields, and in  *)
(* the fields that the signature leaves out.                               *)
(***************************************************************************)
SigHeadings1 == {<<"A">>, <<"A", "B">>}
SigHeadings2 == {<<"C">>, <<"B", "C">>}
SigTags == {JS(<<>>), JS(<<"#">>)}
SigTitles == {<<>>, <<<<"T">>>>, <<<<"T">>, <<"U">>>>, <<<<"T", "U">>>>, <<<<"#">>>>}
SigCaptions == {JS(Str(CaptionMin, "x")), JS(Str(CaptionMin, "y"))}

SigPages(titles, main) == [i \in 1..Len(titles) |-> Page(titles[i], main)]

\* documents that differ in the signature's fields only
SigDocsA ==
    {Post(Cover(tag, h1, h2, Grey), JS(Str(CaptionMin, "x")), SigPages(ts, <<"m">>)) :
        h1 \in SigHeadings1, h2 \in SigHeadings2, tag \in SigTags, ts \in SigTitles}

\* and documents that differ in the other fields as well
SigDocsB ==
    {Post(Cover(tag, h1, h2, g), c, SigPages(ts, m)) :
        h1 \in SigHeadings1, h2 \in SigHeadings2, tag \in SigTags, ts \in SigTitles,
        g \in {Grey, JS(<<"g">>)}, c \in SigCaptions, m \in {<<"m">>, <<"n">>}}
    \cup {[cover |-> Cover(tag, h1, h2, Grey), caption |-> JS(Str(CaptionMin, "x")),
           content_pages |-> SigPages(ts, <<"m">>), engagement_hooks |-> JS(<<"!">>),
           sources |-> JS(<<"s">>)] :
            h1 \in SigHeadings1, h2 \in SigHeadings2, tag \in SigTags, ts \in SigTitles}

InitSig ==
    /\ GenIdle
    /\ RepairIdle
    /\ FlowIdle
    /\ SearchIdle
    /\ PeerIdle
    /\ s_a \in SigDocsA
    /\ s_b \in SigDocsB
    /\ s_hist = <<>>
    /\ s_dup = FALSE
    /\ s_stage = 0

\* self._add_to_history(s_a) on an empty history
SigRecord ==
    /\ s_stage = 0
    /\ s_hist' = AddToHistory(<<>>, s_a, 0)
    /\ s_stage' = 1
    /\ UNCHANGED <<s_a, s_b, s_dup>>
    /\ UNCHANGED genVars
    /\ UNCHANGED repairVars
    /\ UNCHANGED flowVars
    /\ UNCHANGED peerVars
    /\ UNCHANGED searchVars

\* self._check_duplicate(s_b)
SigCheck ==
    /\ s_stage = 1
    /\ s_dup' = CheckDuplicate(s_hist, s_b)
    /\ s_stage' = 2
    /\ UNCHANGED <<s_a, s_b, s_hist>>
    /\ UNCHANGED genVars
    /\ UNCHANGED repairVars
    /\ UNCHANGED flowVars
    /\ UNCHANGED peerVars
    /\ UNCHANGED searchVars

NextSig == SigRecord \/ SigCheck

SpecSig == InitSig /\ [][NextSig]_vars

\* The characters of the first n titles of a document, one after the other.
RECURSIVE TitleText(_, _)
TitleText(d, n) ==
    IF n = 0 THEN <<>> ELSE TitleText(d, n - 1) \o d.content_pages[n].title.v

\* heading_line1 + heading_line2 + hashtag + all titles, nothing in between
SignedText(d) ==
    d.cover.heading_line1.v \o d.cover.heading_line2.v \o d.cover.hashtag.v
    \o TitleText(d, Len(d.content_pages))

\* C16 Signature: a document is classified as a duplicate of a recorded one
\* exactly when the concatenations heading_line1 + heading_line2 + hashtag +
\* titles of the two, in that order and with no separator, are equal,
\* wherever the field boundaries lie and whatever caption, grey_box_text,
\* main_point, hooks and sources are.
C16_SignatureConcatenation ==
    s_stage = 2 => (s_dup <=> SignedText(s_a) = SignedText(s_b))

\* "AB" + "C" against "A" + "BC", the other fields differing too
C16_Witness ==
    /\ s_stage = 2
    /\ s_dup
    /\ s_a.cover.heading_line1 = JS(<<"A", "B">>)
    /\ s_a.cover.heading_line2 = JS(<<"C">>)
    /\ s_b.cover.heading_line1 = JS(<<"A">>)
    /\ s_b.cover.heading_line2 = JS(<<"B", "C">>)
    /\ s_a.cover.hashtag # s_b.cover.hashtag
    /\ s_a.caption # s_b.caption
    /\ s_a.cover.grey_box_text # s_b.cover.grey_box_text

(***************************************************************************)
(* SpecSalvage: the repair of the try block and the repair of the handler  *)
(* of the last attempt, each applied to the same mapping as the Generator  *)
(* gave it.                                                                *)
(***************************************************************************)
\* the handler's repair is applied to the document
SalvageOnce ==
    /\ r_stage = 1
    /\ r_salvage' = SalvageRepair(r_in)
    /\ r_stage' = 3
    /\ UNCHANGED <<r_in, r_once, r_twice>>
    /\ UNCHANGED genVars
    /\ UNCHANGED sigVars
    /\ UNCHANGED flowVars
    /\ UNCHANGED peerVars
    /\ UNCHANGED searchVars

NextSalvage == RepairOnce \/ SalvageOnce

SpecSalvage == InitRepair /\ [][NextSalvage]_vars

RecursionLimit == 25

Ran(node, outcome) == [node |-> node, outcome |-> outcome]

\* the node runs as the next step of the graph, and does `outcome'
Step(node, outcome) ==
    /\ wf_node = node
    /\ wf_steps < RecursionLimit
    /\ wf_steps' = wf_steps + 1
    /\ wf_ran' = Append(wf_ran, Ran(node, outcome))

FlowFrame ==
    /\ UNCHANGED peerVars
    /\ UNCHANGED genVars
    /\ UNCHANGED repairVars
    /\ UNCHANGED sigVars
    /\ UNCHANGED searchVars

\* run_workflow: the initial state, and START -> generate_content
run_workflow(email, post) ==
    /\ wf_node = "idle"
    /\ wf' = create_initial_state(email, post)
    /\ wf_node' = "generate_content"
    /\ wf_ran' = <<>>
    /\ wf_steps' = 0
    /\ poster' = NoPost
    /\ FlowFrame

\* generate_content_node.  outcome: ContentAgent.generate returned a
\* document ("doc") or a mapping that is falsy ("empty"), raised
\* ("raises"), or returned a document that save_content_json failed to
\* write ("save_raises").
GenerateOutcomes == {"doc", "empty", "raises", "save_raises"}

generate_content_node(outcome) ==
    /\ Step("generate_content", outcome)
    /\ wf' = IF outcome \in {"doc", "empty"}
             THEN [wf EXCEPT !.content_json = outcome,
                             !.content_status = "success",
                             !.current_stage = "content"]
             ELSE [wf EXCEPT !.content_status = "error",
                             !.errors = Append(@, "Content generation failed")]
    /\ wf_node' = "supervisor"
    /\ UNCHANGED poster
    /\ FlowFrame

supervisor_node ==
    /\ Step("supervisor", "routes")
    /\ wf_node' = supervisor_route(wf)
    /\ UNCHANGED <<wf, poster>>
    /\ FlowFrame

\* generate_images_node.  outcome: ImageAgent gave images with paths
\* ("paths"), images without any path ("empty"), or raised ("raises").
ImageOutcomes == {"paths", "empty", "raises"}

generate_images_node(outcome) ==
    /\ Step("generate_images", outcome)
    /\ Truthy(wf.content_json) \/ outcome = "raises"
    /\ wf' = IF Truthy(wf.content_json) /\ outcome # "raises"
             THEN [wf EXCEPT !.image_paths = outcome,
                             !.image_status = "success",
                             !.current_stage = "images"]
             ELSE [wf EXCEPT !.image_status = "error",
                             !.errors = Append(@, "Image generation failed")]
    /\ wf_node' = "supervisor"
    /\ UNCHANGED poster
    /\ FlowFrame

\* send_notification_node.  outcome: what NotificationAgent.send_notification
\* returned ("sent", "not_sent") or that it raised ("raises"); the node
\* itself raises, before it calls the agent, when content or image paths
\* are missing.
NotificationOutcomes == {"sent", "not_sent", "raises"}

send_notification_node(outcome) ==
    /\ Step("send_notification", outcome)
    /\ (Truthy(wf.content_json) /\ Truthy(wf.image_paths)) \/ outcome = "raises"
    /\ wf' = IF Truthy(wf.content_json) /\ Truthy(wf.image_paths) /\ outcome # "raises"
             THEN [wf EXCEPT !.notification_status = [sent |-> outcome = "sent"],
                             !.current_stage = "notification"]
             ELSE [wf EXCEPT !.notification_status =
                                 [status |-> "error", message |-> "Notification failed"],
                             !.errors = Append(@, "Notification failed")]
    /\ wf_node' = "supervisor"
    /\ UNCHANGED poster
    /\ FlowFrame

\* post_instagram_node
post_instagram_node(creds, lib, nvalid, login, album, photo) ==
    /\ Step("post_instagram", "posts")
    /\ IF Truthy(wf.content_json) /\ Truthy(wf.image_paths)
       THEN \E r \in {post_to_instagram(creds, lib, nvalid, login, album, photo)} :
               /\ poster' = [called |-> TRUE, creds |-> creds, lib |-> lib,
                             nvalid |-> nvalid, login |-> r.login, album |-> r.album,
                             photo |-> r.photo, out |-> r.out]
               /\ wf' = [wf EXCEPT !.instagram_status = r.out,
                                   !.current_stage = "instagram"]
       ELSE /\ creds /\ lib /\ nvalid = 0 /\ login = "ok" /\ album = "ok" /\ photo = "ok"
            /\ poster' = poster
            /\ wf' = [wf EXCEPT !.instagram_status =
                                    [status |-> "error",
                                     message |-> "Instagram posting failed"],
                                !.errors = Append(@, "Instagram posting failed"),
                                !.current_stage = "instagram"]
    /\ wf_node' = "supervisor"
    /\ FlowFrame

complete_workflow_node ==
    /\ Step("complete_workflow", "completes")
    /\ wf' = [wf EXCEPT !.results = CompleteResults(wf), !.current_stage = "complete"]
    /\ wf_node' = "end"
    /\ UNCHANGED poster
    /\ FlowFrame

handle_error_node ==
    /\ Step("handle_error", "handles")
    /\ wf' = [wf EXCEPT !.results = ErrorResults(wf), !.current_stage = "error"]
    /\ wf_node' = "end"
    /\ UNCHANGED poster
    /\ FlowFrame

\* the run has taken RecursionLimit steps and has not ended
recursion_error ==
    /\ wf_node \notin {"idle", "end", "raised"}
    /\ wf_steps >= RecursionLimit
    /\ wf_node' = "raised"
    /\ UNCHANGED <<wf, wf_ran, wf_steps, poster>>
    /\ FlowFrame

InitFlow ==
    /\ GenIdle
    /\ RepairIdle
    /\ SigIdle
    /\ SearchIdle
    /\ PeerIdle
    /\ FlowIdle

Uploads == {"ok", "fail"}

NextFlow ==
    \/ \E email \in BOOLEAN, post \in BOOLEAN : run_workflow(email, post)
    \/ \E o \in GenerateOutcomes : generate_content_node(o)
    \/ supervisor_node
    \/ \E o \in ImageOutcomes : generate_images_node(o)
    \/ \E o \in NotificationOutcomes : send_notification_node(o)
    \/ \E creds \in BOOLEAN, lib \in BOOLEAN, nvalid \in 0..2,
          login \in Uploads, album \in Uploads, photo \in Uploads :
            post_instagram_node(creds, lib, nvalid, login, album, photo)
    \/ complete_workflow_node
    \/ handle_error_node
    \/ recursion_error

SpecFlow == InitFlow /\ [][NextFlow]_vars

\* The run has executed the node.
Executed(node) == \E i \in 1..Len(wf_ran) : wf_ran[i].node = node

\* C18 Workflow absorbs generation failure: when ContentAgent.generate
\* raises inside generate_content_node, the run does not raise: the state
\* has a non-empty errors list and content_status "error", the next node is
\* the supervisor, the one after it handle_error, the run then ends with
\* results.status = "error", and generate_images, send_notification and
\* post_instagram are never executed.
C18_WorkflowAbsorbsFailure ==
    (Len(wf_ran) >= 1 /\ wf_ran[1] = Ran("generate_content", "raises"))
    => /\ wf_node # "raised"
       /\ wf.content_status = "error"
       /\ wf.errors # <<>>
       /\ ~Executed("generate_images")
       /\ ~Executed("send_notification")
       /\ ~Executed("post_instagram")
       /\ ~Executed("complete_workflow")
       /\ wf_node = IF Len(wf_ran) = 1 THEN "supervisor"
                    ELSE IF Len(wf_ran) = 2 THEN "handle_error"
                    ELSE "end"
       /\ Len(wf_ran) <= 3
       /\ wf_node = "end" =>
             /\ wf_ran[2].node = "supervisor"
             /\ wf_ran[3].node = "handle_error"
             /\ wf.results = [status |-> [v |-> "error"],
                              errors |-> [v |-> <<"Content generation failed">>]]

C18_Witness ==
    /\ wf_ran = <<Ran("generate_content", "raises"), Ran("supervisor", "routes"),
                  Ran("handle_error", "handles")>>
    /\ wf_node = "end"
    /\ wf.recipient_email
    /\ wf.post_to_instagram
    /\ wf.results # None

(***************************************************************************)
(* SpecSearch: calls of search_with_retry(query, max_retries).  What a     *)
(* search does is "ok" (search.run returned) or an exception, told apart   *)
(* by its message as the code does: "ratelimit" (the message holds         *)
(* 'ratelimit'), "rate" (it holds 'rate' only) or "other".  The sleep of   *)
(* one second before each search changes no state and is left out.         *)
(***************************************************************************)
SearchMaxRetries == 4
DefaultMaxRetries == 3

Queries == {"q1", "q2"}
SearchOutcomes == {"ok", "ratelimit", "rate", "other"}

RetriesAnyError(e) == e # "ok"

\* "ratelimit" in str(e).lower() or "rate" in str(e).lower()
IsRateLimit(e) == e \in {"ratelimit", "rate"}

SearchFrame ==
    /\ UNCHANGED genVars
    /\ UNCHANGED repairVars
    /\ UNCHANGED sigVars
    /\ UNCHANGED flowVars
    /\ UNCHANGED peerVars

search_begin(q, m) ==
    /\ search.pc = "idle"
    /\ search' = [NoSearch EXCEPT !.pc = "loop", !.query = q, !.max_retries = m]
    /\ SearchFrame

\* one pass of `for attempt in range(max_retries)'
search_try(o) ==
    /\ search.pc = "loop"
    /\ search.attempt < search.max_retries
    /\ search' =
         IF o = "ok"
         THEN [search EXCEPT !.calls = @ + 1, !.log = Append(@, o),
                             !.pc = "done", !.out = "result"]
         ELSE IF IsRateLimit(o) /\ search.attempt < search.max_retries - 1
         THEN [search EXCEPT !.calls = @ + 1, !.log = Append(@, o),
                             !.sleeps = Append(@, 2 ^ search.attempt),
                             !.attempt = @ + 1]
         ELSE [search EXCEPT !.calls = @ + 1, !.log = Append(@, o),
                             !.pc = "done", !.out = "Search temporarily unavailable"]
    /\ SearchFrame

\* the range is exhausted: "Search failed after multiple attempts"
search_exhausted ==
    /\ search.pc = "loop"
    /\ search.attempt >= search.max_retries
    /\ search' = [search EXCEPT !.pc = "done",
                                !.out = "Search failed after multiple attempts"]
    /\ SearchFrame

InitSearch ==
    /\ GenIdle
    /\ RepairIdle
    /\ SigIdle
    /\ FlowIdle
    /\ SearchIdle
    /\ PeerIdle

NextSearch ==
    \/ \E q \in Queries, m \in 0..SearchMaxRetries : search_begin(q, m)
    \/ \E o \in SearchOutcomes : search_try(o)
    \/ search_exhausted

SpecSearch == InitSearch /\ [][NextSearch]_vars

C20_PosterStatusMapping ==
    poster.called
    => /\ "posted" \in DOMAIN poster.out
       /\ poster.out.posted \in BOOLEAN
       /\ poster.out.posted =>
             /\ poster.login
             /\ poster.album = "ok" \/ poster.photo = "ok"
             /\ poster.photo = "ok" => poster.album \in {"none", "fail"}
             /\ poster.album = "ok" => poster.nvalid > 1
       /\ ~poster.creds =>
             /\ ~poster.out.posted
             /\ ~poster.login
             /\ poster.album = "none"
             /\ poster.photo = "none"
       /\ wf.instagram_status = poster.out
       /\ wf_node = "end" =>
             /\ "instagram" \in DOMAIN wf.results
             /\ wf.results["instagram"] = poster.out

\* the carousel upload failed, the single image went up, the run has ended
C20_Witness ==
    /\ poster.called
    /\ poster.creds
    /\ poster.album = "fail"
    /\ poster.photo = "ok"
    /\ poster.out.posted
    /\ wf_node = "end"
    /\ wf.results["instagram"] = poster.out

\* no credentials
C20_WitnessNoCredentials ==
    /\ poster.called
    /\ ~poster.creds
    /\ ~poster.out.posted
    /\ wf_node = "end"

(***************************************************************************)
(* SpecTrunc: one instance called twice; the Generator answers the first   *)
(* call with DocLong and the second with a response that differs from it   *)
(* only where the repair cuts or pads, or with another document.           *)
(***************************************************************************)
\* The answers to the n-th call: DocLong, then DocLongTail as a mapping,
\* DocLongPadded as text, or DocB.
TruncAnswers(n) == IF n = 1 THEN {3} ELSE {14, 15, 2}

NextTrunc ==
    \/ Construct
    \/ \E m \in 1..SeqMaxAttempts : BeginGenerate(m, SeqCalls)
    \/ \E id \in TruncAnswers(calls), w \in WriteOutcomes : Attempt(id, w)
    \/ Finish

SpecTrunc == Init /\ [][NextTrunc]_vars

\* The responses differ as they came, and so do their fingerprints, but the
\* repair makes the same document of them.
SameAfterRepair(i, j) ==
    /\ ResponseOf(i).doc # ResponseOf(j).doc
    /\ Signature(ResponseOf(i).doc) # Signature(ResponseOf(j).doc)
    /\ RepairedOf(i) = RepairedOf(j)

\* C21 Repair precedes duplicate checking: the signature stored in the new
\* history entry is that of the repaired document, and an attempt is
\* treated as a duplicate exactly when the signature of its repaired
\* document is in the history (it is retried, or accepted only as the
\* forced last attempt); so a response that differs from an accepted one
\* only beyond the limits of heading_line1, heading_line2 or a title, or
\* only in a page that the padding writes identically, is its duplicate.
C21_RepairBeforeDuplicateCheck ==
    /\ (pc = "returned" /\ adds = 1)
       => /\ result = Returned(RepairedOf(log[Len(log)]))
          /\ content_history[Len(content_history)].signature = SigOf(log[Len(log)])
    /\ (Len(log) >= 1 /\ Processable(log[Len(log)]))
       => IF KnownAtStart(log[Len(log)])
          THEN IF Len(log) = max_attempts
               THEN pc = "returned" /\ via = "forced"
               ELSE pc = "loop" /\ content_history = hist0
          ELSE pc = "returned" /\ via = "unique"
    /\ (calls = 2 /\ Len(log) >= 1 /\ Len(hist0) >= 1
        /\ hist0[Len(hist0)].signature = SigOf(3)
        /\ SameAfterRepair(3, log[Len(log)]))
       => /\ via # "unique"
          /\ Len(log) < max_attempts => (pc = "loop" /\ content_history = hist0)

\* The first call accepted DocLong; the second call met DocLongTail, then
\* DocLongPadded, and retried after each.
C21_Witness ==
    /\ calls = 2
    /\ Len(hist0) >= 1
    /\ hist0[Len(hist0)].signature = SigOf(3)
    /\ max_attempts = 2
    /\ log = <<14>>
    /\ SameAfterRepair(3, 14)
    /\ SameAfterRepair(3, 15)
    /\ pc = "loop"
    /\ content_history = hist0

\* The response is a mapping with more content pages than the schema allows.
Oversized(id) ==
    /\ "content_pages" \in DOMAIN ResponseOf(id).doc
    /\ Len(ResponseOf(id).doc.content_pages) > MaxPages

\* C22 Oversized page lists pass through: when the response has more than 8
\* content pages, the repair removes none of them: the returned document
\* has every page of the response, in order, and the history entry of the
\* document holds the title of every one of them.
C22_OversizedPagesPassThrough ==
    (/\ pc = "returned"
     /\ Len(log) >= 1
     /\ Processable(log[Len(log)])
     /\ Oversized(log[Len(log)]))
    => \E raw \in {ResponseOf(log[Len(log)]).doc.content_pages} :
          /\ result.kind = "doc"
          /\ Len(result.doc.content_pages) = Len(raw)
          /\ \A i \in 1..Len(raw) :
                result.doc.content_pages[i] = TruncatePage(raw[i]).doc
          /\ adds = 1
          /\ \E e \in {content_history[Len(content_history)]} :
                /\ Len(e.titles) = Len(raw)
                /\ \A i \in 1..Len(raw) : e.titles[i] = raw[i].title

\* A response of nine pages was accepted.
C22_Witness ==
    /\ pc = "returned"
    /\ via = "unique"
    /\ log = <<13>>
    /\ Oversized(13)
    /\ Len(result.doc.content_pages) = MaxPages + 1
    /\ Len(content_history[Len(content_history)].titles) = MaxPages + 1

\* How often the run has executed the node.
Executions(node) == Cardinality({i \in 1..Len(wf_ran) : wf_ran[i].node = node})

\* C23 Partial results on image failure: when content generation succeeded
\* and generate_images_node fails (image_status = "error"), the supervisor
\* sends the run to complete_workflow, which ends it with results that hold
\* the generated content and the recorded error; send_notification and
\* post_instagram are not executed.
C23_PartialResultsOnImageFailure ==
    \A i \in 1..Len(wf_ran) :
        (wf_ran[i] = Ran("generate_images", "raises") /\ wf.content_status = "success")
        => /\ ~Executed("send_notification")
           /\ ~Executed("post_instagram")
           /\ Len(wf_ran) = i => (wf_node = "supervisor" /\ wf.image_status = "error")
           /\ Len(wf_ran) = i + 1 => wf_node = "complete_workflow"
           /\ Len(wf_ran) >= i + 2
              => /\ wf_ran[i + 2].node = "complete_workflow"
                 /\ wf_node = "end"
                 /\ wf.results # None
                 /\ {"content", "errors"} \subseteq DOMAIN wf.results
                 /\ wf.results["content"] = [v |-> "doc"]
                 /\ wf.results["errors"].v # <<>>

\* C24 Workflow termination: whatever recipient_email and post_to_instagram
\* are and whatever the content, image, notification and posting nodes do,
\* the run never exhausts the step limit of the graph: it reaches
\* complete_workflow or handle_error within the nine steps of the longest
\* route, and generate_content, generate_images, send_notification and
\* post_instagram are each executed at most once.
C24_WorkflowTermination ==
    /\ wf_node # "raised"
    /\ wf_steps <= 9
    /\ \A n \in {"generate_content", "generate_images", "send_notification",
                 "post_instagram"} : Executions(n) <= 1
    /\ wf_node = "end"
       => wf_ran[Len(wf_ran)].node \in {"complete_workflow", "handle_error"}

\* C25 Stage gating: generate_images is entered only with content_status
\* "success" and a non-empty content_json; send_notification only with
\* image_status "success" and a recipient_email; post_instagram only with
\* image_status "success" and post_to_instagram; and with both a
\* recipient_email and post_to_instagram, post_instagram is entered only
\* after send_notification has been executed.
C25_StageGating ==
    /\ (wf_node = "generate_images" \/ Executed("generate_images"))
       => wf.content_status = "success" /\ Truthy(wf.content_json)
    /\ (wf_node = "send_notification" \/ Executed("send_notification"))
       => wf.image_status = "success" /\ wf.recipient_email
    /\ (wf_node = "post_instagram" \/ Executed("post_instagram"))
       => /\ wf.image_status = "success"
          /\ wf.post_to_instagram
          /\ wf.recipient_email => Executed("send_notification")
    /\ \A i \in 1..Len(wf_ran), j \in 1..Len(wf_ran) :
          (wf_ran[i].node = "post_instagram" /\ wf_ran[j].node = "send_notification")
          => j < i

\* A run with both requested: the notification was sent, then the post made.
C25_Witness ==
    /\ wf_node = "end"
    /\ wf.recipient_email
    /\ wf.post_to_instagram
    /\ Executions("generate_images") = 1
    /\ \E i \in 1..Len(wf_ran), j \in 1..Len(wf_ran) :
          /\ wf_ran[j] = Ran("send_notification", "sent")
          /\ wf_ran[i].node = "post_instagram"
          /\ j < i
    /\ poster.called

\* C26 Every returned document is recorded: whenever generate, called with
\* max_attempts >= 1, has returned a document, by whichever return
\* statement, the history in memory is the history the call started with
\* followed by one entry, appended by this call, that carries the signature
\* of the returned document.
C26_ReturnedDocumentRecorded ==
    (pc = "returned" /\ max_attempts >= 1)
    => /\ result.kind = "doc"
       /\ via \in {"unique", "forced"}
       /\ adds = 1
       /\ Len(content_history) = Len(hist0) + 1
       /\ SubSeq(content_history, 1, Len(hist0)) = hist0
       /\ \E e \in {content_history[Len(content_history)]} :
             /\ e.signature = Signature(result.doc)
             /\ e.date = clock - 1

\* The third response was, like the two before it, a document the history
\* knew; it was returned and the history ends with a second entry of its
\* signature.
C26_Witness ==
    /\ pc = "returned"
    /\ via = "forced"
    /\ max_attempts = DefaultMaxAttempts
    /\ Len(hist0) = 2
    /\ hist0[1].signature = Signature(result.doc)
    /\ hist0[2].signature # Signature(result.doc)
    /\ Len(content_history) = 3
    /\ content_history[3].signature = Signature(result.doc)

\* generate has returned by the statement after the loop.
C26_FallThroughReturn == pc = "returned" /\ via = "fallthrough" /\ max_attempts >= 1

(***************************************************************************)
(* SpecEvict: SpecCap's instance, whose n-th call the Generator answers    *)
(* with the n-th fresh document, called once more after the cap has        *)
(* evicted the first entry; the Generator answers that call with the first *)
(* document again, or with the newest one, in any of the three shapes.     *)
(***************************************************************************)
EvictAnswers(n) ==
    IF n <= CapCalls THEN {FreshId(n, 1)}
    ELSE {FreshId(1, k) : k \in 1..Len(FreshShapes)}
         \cup {FreshId(CapCalls, k) : k \in 1..Len(FreshShapes)}

NextEvict ==
    \/ Construct
    \/ BeginGenerate(DefaultMaxAttempts, CapCalls + 1)
    \/ \E id \in EvictAnswers(calls) : Attempt(id, "ok")
    \/ Finish

SpecEvict == InitCap /\ [][NextEvict]_vars

\* C27 Eviction ends duplicate detection: after every accepted call the
\* history in memory has at most 100 entries; the entry of the first
\* accepted document is in it up to the 100th accepted call and gone from
\* the 101st on; and a response with that evicted signature, which no other
\* entry carries, is then classified as new and accepted on the first
\* attempt of its call.
C27_EvictionEndsDetection ==
    /\ pc \in {"returned", "idle"} => Len(content_history) <= HistoryCap
    /\ (pc \in {"returned", "idle"} /\ calls >= 1 /\ calls <= CapCalls)
       => (HasSignature(content_history, Signature(FreshDoc(1)))
           <=> calls <= HistoryCap)
    /\ (/\ calls > HistoryCap + 1
        /\ Len(log) >= 1
        /\ SigOf(log[1]) = Signature(FreshDoc(1)))
       => /\ ~KnownAtStart(log[1])
          /\ pc = "returned"
          /\ via = "unique"
          /\ invocations = 1
          /\ Len(log) = 1
          /\ Len(content_history) = HistoryCap
          /\ content_history[HistoryCap].signature = Signature(FreshDoc(1))

\* The first document came again after its entry was evicted, and was
\* accepted at once.
C27_Witness ==
    /\ calls = CapCalls + 1
    /\ Len(hist0) = HistoryCap
    /\ log = <<FreshId(1, 3)>>
    /\ ~KnownAtStart(log[1])
    /\ pc = "returned"
    /\ via = "unique"
    /\ content_history[HistoryCap].signature = Signature(FreshDoc(1))
    /\ content_history[1].signature = Signature(FreshDoc(CapCalls - HistoryCap + 2))

\* C28 Signatures repeat only through forced acceptance: from a history of
\* pairwise distinct signatures on, whenever two entries of the history
\* carry the same signature, the later of them was appended by the forced
\* acceptance of a duplicate on the last attempt of its call; and an entry
\* appended on an earlier attempt has a signature that no entry of the
\* history carried when it was appended.
C28_RepeatsOnlyByForcedAcceptance ==
    /\ \A i \in 1..Len(content_history), j \in 1..Len(content_history) :
          (i < j /\ content_history[i].signature = content_history[j].signature)
          => content_history[j].date \in forced
    /\ (pc = "returned" /\ adds = 1)
       => \E e \in {content_history[Len(content_history)]} :
             /\ e.date \in forced <=> via = "forced"
             /\ via = "forced" => attempt = max_attempts /\ HasSignature(hist0, e.signature)
             /\ attempt < max_attempts
                => via = "unique" /\ ~HasSignature(hist0, e.signature)

\* Two calls, each of which force-accepted the document the file already
\* held: its signature is in the history three times.
C28_Witness ==
    /\ calls = 2
    /\ pc = "returned"
    /\ via = "forced"
    /\ Len(content_history) = 3
    /\ content_history[1].signature = content_history[2].signature
    /\ content_history[2].signature = content_history[3].signature
    /\ content_history[1].date \notin forced
    /\ {content_history[2].date, content_history[3].date} \subseteq forced

(***************************************************************************)
(* Two ContentAgent instances on one history file.  generate_content_node  *)
(* constructs a ContentAgent with the default history file at every run,   *)
(* so two runs of the workflow are two instances on the same file.  The    *)
(* variables of generate describe the instance that runs; peer.parked      *)
(* holds the other instance, and Switch lets that one run.  The file, the  *)
(* clock and the record of forced entries are common to both.              *)
(***************************************************************************)
\* The instance that runs.
Current ==
    [content_history |-> content_history, pc |-> pc, attempt |-> attempt,
     max_attempts |-> max_attempts, content_json |-> content_json,
     prompt |-> prompt, result |-> result, via |-> via, calls |-> calls,
     invocations |-> invocations, log |-> log, hist0 |-> hist0, file0 |-> file0,
     adds |-> adds, loaded_from |-> loaded_from, wrote |-> wrote]

\* The other process runs.
Switch ==
    /\ peer' = [active |-> 3 - peer.active, parked |-> Current]
    /\ content_history' = peer.parked.content_history
    /\ pc' = peer.parked.pc
    /\ attempt' = peer.parked.attempt
    /\ max_attempts' = peer.parked.max_attempts
    /\ content_json' = peer.parked.content_json
    /\ prompt' = peer.parked.prompt
    /\ result' = peer.parked.result
    /\ via' = peer.parked.via
    /\ calls' = peer.parked.calls
    /\ invocations' = peer.parked.invocations
    /\ log' = peer.parked.log
    /\ hist0' = peer.parked.hist0
    /\ file0' = peer.parked.file0
    /\ adds' = peer.parked.adds
    /\ loaded_from' = peer.parked.loaded_from
    /\ wrote' = peer.parked.wrote
    /\ UNCHANGED <<history_file, clock, forced>>
    /\ UNCHANGED repairVars
    /\ UNCHANGED sigVars
    /\ UNCHANGED flowVars
    /\ UNCHANGED searchVars

\* generate_content_node constructs its ContentAgent and calls generate
\* once, with the default max_attempts.
CallsPerRun == 1

\* The Generator's answers in the runs: DocA, DocB, or text that does not
\* parse.
RunResponses == {1, 2, 8}

\* One run's call of generate.
RunGenerate == BeginGenerate(DefaultMaxAttempts, CallsPerRun)

\* The second run of the workflow starts when the first has its document.
Handover ==
    /\ peer.active = 1
    /\ pc = "returned"
    /\ Switch

(***************************************************************************)
(* SpecHandover: a run's producer makes its call; when it has returned, a   *)
(* second run's producer is constructed on the same file and makes its     *)
(* call.                                                                   *)
(***************************************************************************)
NextHandover ==
    \/ Construct
    \/ RunGenerate
    \/ \E id \in RunResponses, w \in WriteOutcomes : Attempt(id, w)
    \/ Finish
    \/ Handover

SpecHandover == Init /\ [][NextHandover]_vars

\* C29 File mirrors memory for a single producer: when a call has accepted
\* a document and the write succeeded, the file holds the JSON array of the
\* instance's in-memory history, and loading it gives that history back; a
\* producer constructed then on the same file has exactly those entries,
\* and in its call a first response with the signature of any of them is
\* treated as a duplicate (retried, or accepted only as the forced last
\* attempt).
C29_FileMirrorsMemory ==
    /\ (pc = "returned" /\ adds = 1 /\ wrote = "ok")
       => /\ history_file = JsonDump(content_history)
          /\ LoadHistory(history_file) = [exc |-> FALSE, hist |-> content_history]
    /\ (peer.active = 2 /\ peer.parked.wrote = "ok" /\ pc # "new" /\ calls = 0)
       => /\ pc = "idle"
          /\ content_history = peer.parked.content_history
    /\ (peer.active = 2 /\ peer.parked.wrote = "ok" /\ calls = 1 /\ Len(log) >= 1)
       => /\ hist0 = peer.parked.content_history
          /\ (/\ Len(log) = 1
              /\ Processable(log[1])
              /\ HasSignature(peer.parked.content_history, SigOf(log[1])))
             => (pc = "loop" /\ content_history = hist0)

\* The first producer added a second entry to the one of the file; the
\* second producer, constructed after that, met the document of that second
\* entry and retried.
C29_Witness ==
    /\ peer.active = 2
    /\ peer.parked.wrote = "ok"
    /\ Len(peer.parked.hist0) = 1
    /\ Len(peer.parked.content_history) = 2
    /\ history_file = JsonDump(peer.parked.content_history)
    /\ calls = 1
    /\ max_attempts = DefaultMaxAttempts
    /\ Len(log) = 1
    /\ Processable(log[1])
    /\ SigOf(log[1]) = peer.parked.content_history[2].signature
    /\ ~HasSignature(peer.parked.hist0, SigOf(log[1]))
    /\ pc = "loop"
    /\ content_history = hist0

(***************************************************************************)
(* SpecShared: two producers on the same file, running in any order.       *)
(***************************************************************************)
NextShared ==
    \/ Construct
    \/ RunGenerate
    \/ \E id \in RunResponses, w \in WriteOutcomes : Attempt(id, w)
    \/ Finish
    \/ Switch

SpecShared == Init /\ [][NextShared]_vars

\* The entry the instance appended in its call.
Newest(inst) == inst.content_history[Len(inst.content_history)]

\* Both instances have accepted a document in their first call and written
\* the file, and both had loaded the file before either wrote it.
BothAccepted ==
    /\ pc = "returned" /\ adds = 1 /\ wrote = "ok" /\ calls = 1
    /\ peer.parked.pc = "returned" /\ peer.parked.adds = 1
    /\ peer.parked.wrote = "ok" /\ peer.parked.calls = 1
    /\ hist0 = peer.parked.hist0

\* C30 Shared history file without locking: when two instances were
\* constructed on the same file and each then accepted a document, the
\* file holds the in-memory history of the instance that wrote last: the
\* entries both had loaded and that instance's new entry, without the new
\* entry of the other instance.  Neither instance's classification takes
\* account of the other's accept: each accepted its document as unique
\* exactly when the history it had loaded did not hold the signature.
C30_LostUpdate ==
    BothAccepted
    => \E last \in {IF Newest(Current).date > Newest(peer.parked).date
                    THEN Current ELSE peer.parked},
          first \in {IF Newest(Current).date > Newest(peer.parked).date
                     THEN peer.parked ELSE Current} :
          /\ history_file = JsonDump(last.content_history)
          /\ Len(history_file.entries) = Len(hist0) + 1
          /\ history_file.entries = Append(hist0, Newest(last))
          /\ \A i \in 1..Len(history_file.entries) :
                history_file.entries[i] # Newest(first)
          /\ ~\E i \in 1..Len(last.content_history) :
                last.content_history[i] = Newest(first)
          /\ \A inst \in {first, last} :
                inst.via = IF HasSignature(hist0, Newest(inst).signature)
                           THEN "forced" ELSE "unique"

\* Both instances accepted the same new document as unique, on the first
\* attempt, and the file holds one entry for it.
C30_Witness ==
    /\ BothAccepted
    /\ via = "unique"
    /\ peer.parked.via = "unique"
    /\ Len(log) = 1
    /\ Len(peer.parked.log) = 1
    /\ Newest(Current).signature = Newest(peer.parked).signature
    /\ Newest(Current).date > Newest(peer.parked).date
    /\ history_file = JsonDump(content_history)
    /\ Len(history_file.entries) = Len(hist0) + 1

=============================================================================
